---- MODULE Spec2Model ----
(***************************************************************************)
(* A model of parse-lib: a streaming parser-combinator library with        *)
(* packrat memoization (src/index.js).  Parsers are nodes of a fixed       *)
(* arena (Parsers); a node's position in the arena is its object identity, *)
(* which is the key of the memo table.  The transform of every primitive   *)
(* and combinator is translated from its state transform function, the     *)
(* memoizing Parser.transform wraps each of them, and the generator        *)
(* Parser.parseIterable is a state machine with one step per loop          *)
(* iteration plus the final flush.  A second specification (SpecApply)    *)
(* applies transform once to an arbitrary entry state.                     *)
(***************************************************************************)
EXTENDS Integers, Sequences, FiniteSets, TLC

\* ------------------------------------------------------------------ bounds
\* The chunk source yields at most MaxChunks chunks ...
MaxChunks == 3
\* ... whose concatenation has at most MaxInput characters.
MaxInput == 3

\* Characters of the inputs.  A JS string is a sequence of characters.
Alphabet == {"a", "b"}

\* ----------------------------------------------------- ParserStateStatus
COMPLETE == "complete"
PARTIAL == "partial"
ERROR == "error"

\* ------------------------------------------------------------ JS values
\* The result payloads: null, an unfilled array slot, a string, an array.
Null == [t |-> "null", s |-> <<>>, a |-> <<>>]
Undefined == [t |-> "undefined", s |-> <<>>, a |-> <<>>]
Str(s) == [t |-> "string", s |-> s, a |-> <<>>]
Arr(a) == [t |-> "array", s |-> <<>>, a |-> a]

\* The error field: null, an instance of ParserUnexpectedEndOfInputError, or
\* a plain Error told apart by the message its site builds.
NoError == "null"
ParserUnexpectedEndOfInputError == "ParserUnexpectedEndOfInputError"
MismatchError == "Error: Expected ..., but got ..."
EmptyRepetitionError == "Error: Expected at least one match, but got none"
NegativeLookaheadError == "Error: Expected to not be followed by given parser, but it did match"

\* String.prototype.slice(from)
Slice(s, from) == SubSeq(s, from + 1, Len(s))

\* String.prototype.startsWith(t, pos)
StartsWith(s, t, pos) ==
  /\ pos + Len(t) <= Len(s)
  /\ SubSeq(s, pos + 1, pos + Len(t)) = t

\* String.prototype.charCodeAt(0) of the characters the model uses.
CharCodeAt(c) ==
  CASE c = "a" -> 97
    [] c = "b" -> 98
    [] c = "c" -> 99
    [] c = "d" -> 100
    [] c = "0" -> 48
    [] c = "1" -> 49
    [] c = "2" -> 50
    [] c = "3" -> 51
    [] c = "4" -> 52
    [] c = "5" -> 53
    [] c = "6" -> 54
    [] c = "7" -> 55
    [] c = "8" -> 56
    [] c = "9" -> 57
    [] c = "[" -> 91
    [] c = "]" -> 93

\* ------------------------------------------------------------ the parsers
\* Constructors: one record shape for every kind of parser.
\*   text    : the text of a literal
\*   charSet : the list given to charFrom; a member is a one-character
\*             string <<c>> or a pair <<c1, c2>>
\*   parsers : the children (arena positions)
Node(kind, text, charSet, parsers) ==
  [kind |-> kind, text |-> text, charSet |-> charSet, parsers |-> parsers]

\* A parser object built by parser.map(fn): fn names the function given.
MapNode(fn, parser) ==
  [kind |-> "map", text |-> <<>>, charSet |-> <<>>, parsers |-> <<parser>>,
   fn |-> fn]

\* The parser objects the model builds, as a program would:
\*    const ab = literal("ab")                        // 1
\*    const a = literal("a")                          // 2
\*    const aOrDC = charFrom(["a", ["d", "c"]])       // 5
\*    const aThenAb = sequenceOf(a, ab)               // 6
\*    const anBn = lazy(() => anBnBody)               // 15
\*    const anBnBody = sequenceOf(a, oneOf(anBn, charFrom([["b", "c"]])))  // 16
\*    const empty = literal("")                       // 29
\*    const nested = sequenceOf(aThenAb, a)           // 34
\*    const lazyAb = lazy(() => ab)                   // 38
\*    const upperAb = ab.map(r => r.toUpperCase())    // 39
\*    const wrapped = aThenAb.map(r => [r])           // 40
\*    const array = lazy(() => arrayBody)             // 44
\*    const arrayBody = sequenceOf(literal("["), oneOf(array, charFrom(["0", "9"])), literal("]"))  // 45
\*    const rangeArray = lazy(() => rangeArrayBody)   // 48
\*    const rangeArrayBody = sequenceOf(literal("["), oneOf(rangeArray, charFrom([["0", "9"]])), literal("]"))  // 49
\*    const manyOptional = zeroOrMore(optional(ab))   // 51
\*    const someAhead = oneOrMore(followedBy(ab))     // 52
\*    const manyEnds = zeroOrMore(endOfInput)         // 53
\*    const someSequences = oneOrMore(sequenceOf(a))  // 54, 55
\*    const asThenA = sequenceOf(zeroOrMore(a), a)    // 56
\* and so on; parsers holds the positions of the children.  A parser object
\* used twice (a, ab, anyChar, endOfInput) is one object, as in JS.  The
\* child of a repetition below 51 always consumes a character when it
\* succeeds; the child of 51 to 54 can succeed at the index it started from.
Parsers == <<
  (*  1 *) Node("literal", <<"a", "b">>, <<>>, <<>>),
  (*  2 *) Node("literal", <<"a">>, <<>>, <<>>),
  (*  3 *) Node("anyChar", <<>>, <<>>, <<>>),
  (*  4 *) Node("endOfInput", <<>>, <<>>, <<>>),
  (*  5 *) Node("charFrom", <<>>, << <<"a">>, <<"d", "c">> >>, <<>>),
  (*  6 *) Node("sequenceOf", <<>>, <<>>, <<2, 1>>),
  (*  7 *) Node("sequenceOf", <<>>, <<>>, <<>>),
  (*  8 *) Node("oneOf", <<>>, <<>>, <<1, 2>>),
  (*  9 *) Node("zeroOrMore", <<>>, <<>>, <<2>>),
  (* 10 *) Node("oneOrMore", <<>>, <<>>, <<1>>),
  (* 11 *) Node("optional", <<>>, <<>>, <<1>>),
  (* 12 *) Node("followedBy", <<>>, <<>>, <<1>>),
  (* 13 *) Node("notFollowedBy", <<>>, <<>>, <<1>>),
  (* 14 *) Node("sequenceOf", <<>>, <<>>, <<12, 3>>),
  (* 15 *) Node("lazy", <<>>, <<>>, <<16>>),
  (* 16 *) Node("sequenceOf", <<>>, <<>>, <<2, 17>>),
  (* 17 *) Node("oneOf", <<>>, <<>>, <<15, 18>>),
  (* 18 *) Node("charFrom", <<>>, << <<"b", "c">> >>, <<>>),
  (* 19 *) Node("sequenceOf", <<>>, <<>>, <<9, 4>>),
  (* 20 *) Node("sequenceOf", <<>>, <<>>, <<2, 13>>),
  (* 21 *) Node("oneOf", <<>>, <<>>, <<2, 1>>),
  (* 22 *) Node("zeroOrMore", <<>>, <<>>, <<3>>),
  (* 23 *) Node("sequenceOf", <<>>, <<>>, <<11, 2>>),
  (* 24 *) Node("notFollowedBy", <<>>, <<>>, <<3>>),
  (* 25 *) Node("optional", <<>>, <<>>, <<4>>),
  (* 26 *) Node("sequenceOf", <<>>, <<>>, <<22, 4>>),
  (* 27 *) Node("literal", <<"a", "b", "a">>, <<>>, <<>>),
  (* 28 *) Node("charFrom", <<>>, << <<"b", "a">> >>, <<>>),
  (* 29 *) Node("literal", <<>>, <<>>, <<>>),
  (* 30 *) Node("sequenceOf", <<>>, <<>>, <<29, 2>>),
  (* 31 *) Node("sequenceOf", <<>>, <<>>, <<2, 29>>),
  (* 32 *) Node("sequenceOf", <<>>, <<>>, <<29, 29>>),
  (* 33 *) Node("sequenceOf", <<>>, <<>>, <<1, 2>>),
  (* 34 *) Node("sequenceOf", <<>>, <<>>, <<6, 2>>),
  (* 35 *) Node("oneOf", <<>>, <<>>, <<18, 13>>),
  (* 36 *) Node("oneOrMore", <<>>, <<>>, <<2>>),
  (* 37 *) Node("zeroOrMore", <<>>, <<>>, <<1>>),
  (* 38 *) Node("lazy", <<>>, <<>>, <<1>>),
  (* 39 *) MapNode("toUpperCase", 1),
  (* 40 *) MapNode("wrap", 6),
  (* 41 *) Node("literal", <<"[">>, <<>>, <<>>),
  (* 42 *) Node("literal", <<"]">>, <<>>, <<>>),
  (* 43 *) Node("charFrom", <<>>, << <<"0">>, <<"9">> >>, <<>>),
  (* 44 *) Node("lazy", <<>>, <<>>, <<45>>),
  (* 45 *) Node("sequenceOf", <<>>, <<>>, <<41, 46, 42>>),
  (* 46 *) Node("oneOf", <<>>, <<>>, <<44, 43>>),
  (* 47 *) Node("charFrom", <<>>, << <<"0", "9">> >>, <<>>),
  (* 48 *) Node("lazy", <<>>, <<>>, <<49>>),
  (* 49 *) Node("sequenceOf", <<>>, <<>>, <<41, 50, 42>>),
  (* 50 *) Node("oneOf", <<>>, <<>>, <<48, 47>>),
  (* 51 *) Node("zeroOrMore", <<>>, <<>>, <<11>>),
  (* 52 *) Node("oneOrMore", <<>>, <<>>, <<12>>),
  (* 53 *) Node("zeroOrMore", <<>>, <<>>, <<4>>),
  (* 54 *) Node("oneOrMore", <<>>, <<>>, <<55>>),
  (* 55 *) Node("sequenceOf", <<>>, <<>>, <<2>>),
  (* 56 *) Node("sequenceOf", <<>>, <<>>, <<9, 2>>)
>>

ParserIds == DOMAIN Parsers

\* The two array grammars: array (44), whose digits are charFrom(["0", "9"]),
\* and the same grammar with the digits written as one range (48).
ArrayParsers == {44, 48}

\* The parsers of the array grammars and their parts; they read brackets
\* and digits.
BracketParsers == {p \in ParserIds : p >= 41 /\ p <= 50}

\* The repetitions whose child can succeed without advancing the index: an
\* optional, a lookahead, endOfInput, a sequenceOf (PARTIAL at its own entry
\* index when a non-final buffer ends there); with them the sequenceOf of 54.
ZeroWidthRepetitions == {p \in ParserIds : p >= 51 /\ p <= 55}

\* asThenA (56), which applies literal("a") twice at the offset where its
\* repetition stopped, is parsed by SpecPackrat only.
PackratParsers == {p \in ParserIds : p >= 56}

\* The parsers that read the characters of Alphabet and whose repetitions
\* have a child that consumes.
AlphabetParsers ==
  ParserIds \ (BracketParsers \cup ZeroWidthRepetitions \cup PackratParsers)

\* ------------------------------------------------------------ ParserState
\* The cacheMap field is a reference to the one map of the parse; the model
\* threads that map beside the state instead of inside it.
ParserState(value, done, index, status, result, error) ==
  [input |-> [value |-> value, done |-> done], index |-> index,
   status |-> status, result |-> result, error |-> error]

isErrorState(state) == state.status = ERROR

\* error instanceof ParserUnexpectedEndOfInputError && !input.done
isUnexpectedEndOfInput(state) ==
  /\ isErrorState(state)
  /\ state.error = ParserUnexpectedEndOfInputError
  /\ ~state.input.done

\* new Map(): no (parser, index) has an entry.
EmptyCacheMap == <<>>

\* cacheMap.get(parser).set(index, state)
CacheSet(cacheMap, key, state) ==
  [k \in DOMAIN cacheMap \cup {key} |-> IF k = key THEN state ELSE cacheMap[k]]

\* A transform returns a state and leaves the shared map as it made it.
Out(state, cacheMap) == [state |-> state, cacheMap |-> cacheMap]

\* ------------------------------------------------------------ primitives
\* literal with the partial match advanced by the whole text instead of by
\* the characters seen.
literalOverrun(text, parserState) ==
  LET remainingInput == Slice(parserState.input.value, parserState.index)
  IN  IF Len(remainingInput) = 0
      THEN [parserState EXCEPT !.status = ERROR,
                               !.error = ParserUnexpectedEndOfInputError]
      ELSE IF /\ ~parserState.input.done
              /\ Len(remainingInput) < Len(text)
              /\ StartsWith(text, remainingInput, 0)
      THEN [parserState EXCEPT !.index = parserState.index + Len(text),
                               !.status = PARTIAL,
                               !.result = Str(remainingInput)]
      ELSE IF ~StartsWith(parserState.input.value, text, parserState.index)
      THEN [parserState EXCEPT !.status = ERROR, !.error = MismatchError]
      ELSE [parserState EXCEPT !.index = parserState.index + Len(text),
                               !.status = COMPLETE,
                               !.result = Str(text)]

\* literal without its partial branch: a proper prefix seen over a non-final
\* input is a mismatch.
literalNoPartial(text, parserState) ==
  LET remainingInput == Slice(parserState.input.value, parserState.index)
  IN  IF Len(remainingInput) = 0
      THEN [parserState EXCEPT !.status = ERROR,
                               !.error = ParserUnexpectedEndOfInputError]
      ELSE IF ~StartsWith(parserState.input.value, text, parserState.index)
      THEN [parserState EXCEPT !.status = ERROR, !.error = MismatchError]
      ELSE [parserState EXCEPT !.index = parserState.index + Len(text),
                               !.status = COMPLETE,
                               !.result = Str(text)]

\* literal(text): the state transform function.
literal(text, parserState) ==
  LET remainingInput == Slice(parserState.input.value, parserState.index)
  IN  IF Len(remainingInput) = 0
      THEN [parserState EXCEPT !.status = ERROR,
                               !.error = ParserUnexpectedEndOfInputError]
      ELSE IF /\ ~parserState.input.done
              /\ Len(remainingInput) < Len(text)
              /\ StartsWith(text, remainingInput, 0)
      THEN [parserState EXCEPT !.index = parserState.index + Len(remainingInput),
                               !.status = PARTIAL,
                               !.result = Str(remainingInput)]
      ELSE IF ~StartsWith(parserState.input.value, text, parserState.index)
      THEN [parserState EXCEPT !.status = ERROR, !.error = MismatchError]
      ELSE [parserState EXCEPT !.index = parserState.index + Len(text),
                               !.status = COMPLETE,
                               !.result = Str(text)]

\* anyChar reporting a mismatch, not the end of input, when the input is
\* final and exhausted.
anyCharMismatchWhenDone(parserState) ==
  IF parserState.index >= Len(parserState.input.value)
  THEN [parserState EXCEPT
          !.status = ERROR,
          !.error = IF parserState.input.done THEN MismatchError
                    ELSE ParserUnexpectedEndOfInputError]
  ELSE [parserState EXCEPT
          !.status = COMPLETE,
          !.index = parserState.index + 1,
          !.result = Str(<<parserState.input.value[parserState.index + 1]>>)]

\* anyChar
anyChar(parserState) ==
  IF parserState.index >= Len(parserState.input.value)
  THEN [parserState EXCEPT !.status = ERROR,
                           !.error = ParserUnexpectedEndOfInputError]
  ELSE [parserState EXCEPT
          !.status = COMPLETE,
          !.index = parserState.index + 1,
          !.result = Str(<<parserState.input.value[parserState.index + 1]>>)]

\* A member of a charSet with the pair taken as given (no sort).
charOrRangeMatchesUnsorted(charOrRange, c) ==
  IF Len(charOrRange) = 1
  THEN c = charOrRange[1]
  ELSE /\ CharCodeAt(c) >= CharCodeAt(charOrRange[1])
       /\ CharCodeAt(c) <= CharCodeAt(charOrRange[2])

\* One member of a charSet against the character c: a string member (length
\* 1) matches by equality, an array member (a pair) by its sorted char codes.
charOrRangeMatches(charOrRange, c) ==
  IF Len(charOrRange) = 1
  THEN c = charOrRange[1]
  ELSE LET c1 == CharCodeAt(charOrRange[1])
           c2 == CharCodeAt(charOrRange[2])
           start == IF c1 <= c2 THEN c1 ELSE c2
           end == IF c1 <= c2 THEN c2 ELSE c1
       IN  CharCodeAt(c) >= start /\ CharCodeAt(c) <= end

\* The for loop of charFrom from member i on: TRUE when some member matches.
RECURSIVE charFromLoop(_, _, _)
charFromLoop(charSet, i, c) ==
  IF i > Len(charSet) THEN FALSE
  ELSE IF charOrRangeMatches(charSet[i], c) THEN TRUE
  ELSE charFromLoop(charSet, i + 1, c)

\* charFrom(charSet)
charFrom(charSet, parserState) ==
  IF parserState.index >= Len(parserState.input.value)
  THEN [parserState EXCEPT !.status = ERROR,
                           !.error = ParserUnexpectedEndOfInputError]
  ELSE IF charFromLoop(charSet, 1, parserState.input.value[parserState.index + 1])
  THEN [parserState EXCEPT
          !.status = COMPLETE,
          !.index = parserState.index + 1,
          !.result = Str(<<parserState.input.value[parserState.index + 1]>>)]
  ELSE [parserState EXCEPT !.status = ERROR, !.error = MismatchError]

\* endOfInput succeeding at the end of the buffer whether or not it is final.
endOfInputIgnoringDone(parserState) ==
  IF parserState.index < Len(parserState.input.value)
  THEN [parserState EXCEPT !.status = ERROR, !.error = MismatchError]
  ELSE [parserState EXCEPT !.status = COMPLETE, !.result = Null]

\* endOfInput
endOfInput(parserState) ==
  IF parserState.index < Len(parserState.input.value)
  THEN [parserState EXCEPT !.status = ERROR, !.error = MismatchError]
  ELSE IF ~parserState.input.done
  THEN [parserState EXCEPT !.status = ERROR,
                           !.error = ParserUnexpectedEndOfInputError]
  ELSE [parserState EXCEPT !.status = COMPLETE, !.result = Null]

\* ------------------------------------------------- Parser.transform (memo)
\* The reuse rule with a PARTIAL entry reused whatever the snapshot.
CacheReusableAnyPartial(cachedParserState, parserState) ==
  \/ cachedParserState.status = COMPLETE
  \/ cachedParserState.status = PARTIAL
  \/ /\ cachedParserState.status = ERROR
     /\ ~(/\ cachedParserState.error = ParserUnexpectedEndOfInputError
          /\ ~cachedParserState.input.done)

\* The reuse rule with every ERROR entry reused, an unexpected end of a
\* non-final input included.
CacheReusableAnyError(cachedParserState, parserState) ==
  \/ cachedParserState.status = COMPLETE
  \/ /\ cachedParserState.status = PARTIAL
     /\ cachedParserState.input.value = parserState.input.value
     /\ cachedParserState.input.done = parserState.input.done
  \/ cachedParserState.status = ERROR

\* The reuse rule without its first case: a COMPLETE entry is computed again
\* at every call.
CacheReusableNoComplete(cachedParserState, parserState) ==
  \/ /\ cachedParserState.status = PARTIAL
     /\ cachedParserState.input.value = parserState.input.value
     /\ cachedParserState.input.done = parserState.input.done
  \/ /\ cachedParserState.status = ERROR
     /\ ~(/\ cachedParserState.error = ParserUnexpectedEndOfInputError
          /\ ~cachedParserState.input.done)

\* The condition under which transform answers from the cached state.
CacheReusable(cachedParserState, parserState) ==
  \/ cachedParserState.status = COMPLETE
  \/ /\ cachedParserState.status = PARTIAL
     /\ cachedParserState.input.value = parserState.input.value
     /\ cachedParserState.input.done = parserState.input.done
  \/ /\ cachedParserState.status = ERROR
     /\ ~(/\ cachedParserState.error = ParserUnexpectedEndOfInputError
          /\ ~cachedParserState.input.done)

RECURSIVE Transform(_, _, _)
RECURSIVE StateTransformFn(_, _, _)
RECURSIVE sequenceOfLoop(_, _, _, _, _)
RECURSIVE oneOfLoop(_, _, _, _, _)
RECURSIVE zeroOrMoreLoop(_, _, _, _)
RECURSIVE oneOrMoreLoop(_, _, _, _)

\* transform without its first line: an error state is looked up and
\* transformed like any other state.
TransformOnErrorState(p, parserState, cacheMap) ==
  LET key == <<p, parserState.index>>
  IN  IF /\ key \in DOMAIN cacheMap
         /\ CacheReusable(cacheMap[key], parserState)
      THEN Out([cacheMap[key] EXCEPT !.input = parserState.input], cacheMap)
      ELSE LET next == StateTransformFn(p, parserState, cacheMap)
           IN  Out(next.state, CacheSet(next.cacheMap, key, next.state))

\* Parser.transform of the parser object p.
Transform(p, parserState, cacheMap) ==
  IF isErrorState(parserState) THEN Out(parserState, cacheMap)
  ELSE LET key == <<p, parserState.index>>
       IN  IF /\ key \in DOMAIN cacheMap
              /\ CacheReusable(cacheMap[key], parserState)
           THEN Out([cacheMap[key] EXCEPT !.input = parserState.input], cacheMap)
           ELSE LET next == StateTransformFn(p, parserState, cacheMap)
                IN  Out(next.state, CacheSet(next.cacheMap, key, next.state))

\* ------------------------------------------------------------ combinators
\* The loop of sequenceOf building its partial state from the child's error
\* state instead of the state before the child ran.
sequenceOfLoopPartialFromChild(parsers, i, currentParserState, result, cacheMap) ==
  IF i > Len(parsers)
  THEN Out([currentParserState EXCEPT !.result = Arr(result)], cacheMap)
  ELSE LET next == Transform(parsers[i], currentParserState, cacheMap)
       IN  IF isUnexpectedEndOfInput(next.state)
           THEN Out([next.state EXCEPT !.status = PARTIAL,
                                       !.result = Arr(result)],
                    next.cacheMap)
           ELSE IF isErrorState(next.state) THEN next
           ELSE sequenceOfLoop(parsers, i + 1, next.state,
                               [result EXCEPT ![i] = next.state.result],
                               next.cacheMap)

\* The loop of sequenceOf putting the results gathered so far into the
\* error state of a failed child.
sequenceOfLoopErrorWithResult(parsers, i, currentParserState, result, cacheMap) ==
  IF i > Len(parsers)
  THEN Out([currentParserState EXCEPT !.result = Arr(result)], cacheMap)
  ELSE LET next == Transform(parsers[i], currentParserState, cacheMap)
       IN  IF isUnexpectedEndOfInput(next.state)
           THEN Out([currentParserState EXCEPT !.status = PARTIAL,
                                               !.result = Arr(result)],
                    next.cacheMap)
           ELSE IF isErrorState(next.state)
           THEN Out([next.state EXCEPT !.result = Arr(result)], next.cacheMap)
           ELSE sequenceOfLoop(parsers, i + 1, next.state,
                               [result EXCEPT ![i] = next.state.result],
                               next.cacheMap)

\* The loop of sequenceOf returning the last child's state as it is.
sequenceOfLoopKeepsLastResult(parsers, i, currentParserState, result, cacheMap) ==
  IF i > Len(parsers)
  THEN Out(currentParserState, cacheMap)
  ELSE LET next == Transform(parsers[i], currentParserState, cacheMap)
       IN  IF isUnexpectedEndOfInput(next.state)
           THEN Out([currentParserState EXCEPT !.status = PARTIAL,
                                               !.result = Arr(result)],
                    next.cacheMap)
           ELSE IF isErrorState(next.state) THEN next
           ELSE sequenceOfLoop(parsers, i + 1, next.state,
                               [result EXCEPT ![i] = next.state.result],
                               next.cacheMap)

\* The for loop of sequenceOf from child i on.
sequenceOfLoop(parsers, i, currentParserState, result, cacheMap) ==
  IF i > Len(parsers)
  THEN Out([currentParserState EXCEPT !.result = Arr(result)], cacheMap)
  ELSE LET next == Transform(parsers[i], currentParserState, cacheMap)
       IN  IF isUnexpectedEndOfInput(next.state)
           THEN Out([currentParserState EXCEPT !.status = PARTIAL,
                                               !.result = Arr(result)],
                    next.cacheMap)
           ELSE IF isErrorState(next.state) THEN next
           ELSE sequenceOfLoop(parsers, i + 1, next.state,
                               [result EXCEPT ![i] = next.state.result],
                               next.cacheMap)

\* sequenceOf(...parsers): result = new Array(parsers.length)
sequenceOf(parsers, parserState, cacheMap) ==
  sequenceOfLoop(parsers, 1, parserState,
                 [i \in 1..Len(parsers) |-> Undefined], cacheMap)

\* The loop of oneOf treating an unexpected end of a non-final input as any
\* other failure of an alternative.
oneOfLoopTriesPastEndOfInput(parsers, i, parserState, firstErrorState, cacheMap) ==
  IF i > Len(parsers) THEN Out(firstErrorState[1], cacheMap)
  ELSE LET next == Transform(parsers[i], parserState, cacheMap)
       IN  IF isErrorState(next.state)
           THEN oneOfLoop(parsers, i + 1, parserState,
                          IF firstErrorState = <<>> THEN <<next.state>>
                          ELSE firstErrorState,
                          next.cacheMap)
           ELSE next

\* The for loop of oneOf from child i on; firstErrorState is <<>> for null.
oneOfLoop(parsers, i, parserState, firstErrorState, cacheMap) ==
  IF i > Len(parsers) THEN Out(firstErrorState[1], cacheMap)
  ELSE LET next == Transform(parsers[i], parserState, cacheMap)
       IN  IF isUnexpectedEndOfInput(next.state) THEN next
           ELSE IF isErrorState(next.state)
           THEN oneOfLoop(parsers, i + 1, parserState,
                          IF firstErrorState = <<>> THEN <<next.state>>
                          ELSE firstErrorState,
                          next.cacheMap)
           ELSE next

\* oneOf(...parsers)
oneOf(parsers, parserState, cacheMap) ==
  oneOfLoop(parsers, 1, parserState, <<>>, cacheMap)

\* The loop of zeroOrMore breaking on an unexpected end of a non-final input
\* as on any other error.
zeroOrMoreLoopStopsAtEndOfInput(parser, currentParserState, result, cacheMap) ==
  LET next == Transform(parser, currentParserState, cacheMap)
  IN  IF isErrorState(next.state)
      THEN Out([currentParserState EXCEPT
                  !.status = IF Len(result) = 0 THEN COMPLETE
                             ELSE currentParserState.status,
                  !.result = Arr(result)],
               next.cacheMap)
      ELSE zeroOrMoreLoop(parser, next.state,
                          Append(result, next.state.result), next.cacheMap)

\* The while loop of zeroOrMore, and the return after its break.
zeroOrMoreLoop(parser, currentParserState, result, cacheMap) ==
  LET next == Transform(parser, currentParserState, cacheMap)
  IN  IF isUnexpectedEndOfInput(next.state)
      THEN Out([currentParserState EXCEPT !.status = PARTIAL,
                                          !.result = Arr(result)],
               next.cacheMap)
      ELSE IF isErrorState(next.state)
      THEN Out([currentParserState EXCEPT
                  !.status = IF Len(result) = 0 THEN COMPLETE
                             ELSE currentParserState.status,
                  !.result = Arr(result)],
               next.cacheMap)
      ELSE zeroOrMoreLoop(parser, next.state,
                          Append(result, next.state.result), next.cacheMap)

\* zeroOrMore(parser)
zeroOrMore(parser, parserState, cacheMap) ==
  zeroOrMoreLoop(parser, parserState, <<>>, cacheMap)

\* The loop of oneOrMore returning the child's error state when nothing was
\* collected.
oneOrMoreLoopChildError(parser, currentParserState, result, cacheMap) ==
  LET next == Transform(parser, currentParserState, cacheMap)
  IN  IF isUnexpectedEndOfInput(next.state)
      THEN Out([currentParserState EXCEPT !.status = PARTIAL,
                                          !.result = Arr(result)],
               next.cacheMap)
      ELSE IF isErrorState(next.state)
      THEN IF Len(result) = 0
           THEN next
           ELSE Out([currentParserState EXCEPT !.result = Arr(result)],
                    next.cacheMap)
      ELSE oneOrMoreLoop(parser, next.state,
                         Append(result, next.state.result), next.cacheMap)

\* The while loop of oneOrMore, and the returns after its break.
oneOrMoreLoop(parser, currentParserState, result, cacheMap) ==
  LET next == Transform(parser, currentParserState, cacheMap)
  IN  IF isUnexpectedEndOfInput(next.state)
      THEN Out([currentParserState EXCEPT !.status = PARTIAL,
                                          !.result = Arr(result)],
               next.cacheMap)
      ELSE IF isErrorState(next.state)
      THEN IF Len(result) = 0
           THEN Out([currentParserState EXCEPT !.status = ERROR,
                                               !.error = EmptyRepetitionError],
                    next.cacheMap)
           ELSE Out([currentParserState EXCEPT !.result = Arr(result)],
                    next.cacheMap)
      ELSE oneOrMoreLoop(parser, next.state,
                         Append(result, next.state.result), next.cacheMap)

\* oneOrMore(parser)
oneOrMore(parser, parserState, cacheMap) ==
  oneOrMoreLoop(parser, parserState, <<>>, cacheMap)

\* optional turning an unexpected end of a non-final input into an absent
\* match, like any other error.
optionalSwallowsEndOfInput(parser, parserState, cacheMap) ==
  LET next == Transform(parser, parserState, cacheMap)
  IN  IF isErrorState(next.state)
      THEN Out([parserState EXCEPT !.status = COMPLETE, !.result = Null],
               next.cacheMap)
      ELSE next

\* optional(parser)
optional(parser, parserState, cacheMap) ==
  LET next == Transform(parser, parserState, cacheMap)
  IN  IF isUnexpectedEndOfInput(next.state) THEN next
      ELSE IF isErrorState(next.state)
      THEN Out([parserState EXCEPT !.status = COMPLETE, !.result = Null],
               next.cacheMap)
      ELSE next

\* followedBy returning the child's state when it succeeds.
followedByConsumes(parser, parserState, cacheMap) ==
  LET next == Transform(parser, parserState, cacheMap)
  IN  IF isErrorState(next.state)
      THEN Out([parserState EXCEPT !.status = ERROR,
                                   !.error = next.state.error],
               next.cacheMap)
      ELSE next

\* followedBy(parser)
followedBy(parser, parserState, cacheMap) ==
  LET next == Transform(parser, parserState, cacheMap)
  IN  IF isErrorState(next.state)
      THEN Out([parserState EXCEPT !.status = ERROR,
                                   !.error = next.state.error],
               next.cacheMap)
      ELSE Out([parserState EXCEPT !.status = next.state.status,
                                   !.result = next.state.result],
               next.cacheMap)

\* notFollowedBy without its partial-match case: a PARTIAL child counts as
\* not matching.
notFollowedByPartialPasses(parser, parserState, cacheMap) ==
  LET next == Transform(parser, parserState, cacheMap)
  IN  IF next.state.status = COMPLETE
      THEN Out([parserState EXCEPT !.status = ERROR,
                                   !.error = NegativeLookaheadError],
               next.cacheMap)
      ELSE IF isUnexpectedEndOfInput(next.state)
      THEN Out([parserState EXCEPT !.status = ERROR,
                                   !.error = ParserUnexpectedEndOfInputError],
               next.cacheMap)
      ELSE Out([parserState EXCEPT !.status = COMPLETE, !.result = Null],
               next.cacheMap)

\* notFollowedBy(parser)
notFollowedBy(parser, parserState, cacheMap) ==
  LET next == Transform(parser, parserState, cacheMap)
  IN  IF next.state.status = COMPLETE
      THEN Out([parserState EXCEPT !.status = ERROR,
                                   !.error = NegativeLookaheadError],
               next.cacheMap)
      ELSE IF isUnexpectedEndOfInput(next.state)
      THEN Out([parserState EXCEPT !.status = ERROR,
                                   !.error = ParserUnexpectedEndOfInputError],
               next.cacheMap)
      ELSE IF next.state.status = PARTIAL
      THEN Out([parserState EXCEPT !.status = ERROR,
                                   !.error = ParserUnexpectedEndOfInputError],
               next.cacheMap)
      ELSE Out([parserState EXCEPT !.status = COMPLETE, !.result = Null],
               next.cacheMap)

\* lazy(parserThunk): the thunk returns the parser object parsers[1].
lazy(parserThunk, parserState, cacheMap) ==
  Transform(parserThunk, parserState, cacheMap)

\* The letters String.prototype.toUpperCase() changes among the characters
\* of the model and of the repository's tests, and what it changes them to.
LowerCase ==
  <<"a", "b", "c", "d", "e", "f", "g", "h", "i", "j", "k", "l", "m",
    "n", "o", "p", "q", "r", "s", "t", "u", "v", "w", "x", "y", "z">>

UpperCase ==
  <<"A", "B", "C", "D", "E", "F", "G", "H", "I", "J", "K", "L", "M",
    "N", "O", "P", "Q", "R", "S", "T", "U", "V", "W", "X", "Y", "Z">>

\* String.prototype.toUpperCase() of one character: a lower-case letter
\* becomes its capital, digits, brackets, punctuation and capitals stay.
ToUpperCase(c) ==
  IF \E i \in DOMAIN LowerCase : LowerCase[i] = c
  THEN UpperCase[CHOOSE i \in DOMAIN LowerCase : LowerCase[i] = c]
  ELSE c

\* The function given to map, applied to a result: r => r.toUpperCase() on
\* a string, r => [r] on anything.
ApplyFn(fn, result) ==
  CASE fn = "toUpperCase" ->
         Str([k \in 1..Len(result.s) |-> ToUpperCase(result.s[k])])
    [] fn = "wrap" -> Arr(<<result>>)

\* map applying fn to the result field of an error state too.
mapOnAnyState(parser, fn, parserState, cacheMap) ==
  LET newState == Transform(parser, parserState, cacheMap)
  IN  Out([newState.state EXCEPT
             !.result = ApplyFn(fn, newState.state.result)],
          newState.cacheMap)

\* Parser.map(fn) on the parser object parser: the state transform function
\* of the new parser.
map(parser, fn, parserState, cacheMap) ==
  LET newState == Transform(parser, parserState, cacheMap)
  IN  IF newState.state.status = ERROR THEN newState
      ELSE Out([newState.state EXCEPT
                  !.result = ApplyFn(fn, newState.state.result)],
               newState.cacheMap)

\* The #stateTransformFn of the parser object p, by the function that built it.
StateTransformFn(p, parserState, cacheMap) ==
  LET n == Parsers[p]
  IN  CASE n.kind = "literal" -> Out(literal(n.text, parserState), cacheMap)
        [] n.kind = "anyChar" -> Out(anyChar(parserState), cacheMap)
        [] n.kind = "charFrom" -> Out(charFrom(n.charSet, parserState), cacheMap)
        [] n.kind = "endOfInput" -> Out(endOfInput(parserState), cacheMap)
        [] n.kind = "sequenceOf" -> sequenceOf(n.parsers, parserState, cacheMap)
        [] n.kind = "oneOf" -> oneOf(n.parsers, parserState, cacheMap)
        [] n.kind = "zeroOrMore" -> zeroOrMore(n.parsers[1], parserState, cacheMap)
        [] n.kind = "oneOrMore" -> oneOrMore(n.parsers[1], parserState, cacheMap)
        [] n.kind = "optional" -> optional(n.parsers[1], parserState, cacheMap)
        [] n.kind = "followedBy" -> followedBy(n.parsers[1], parserState, cacheMap)
        [] n.kind = "notFollowedBy" -> notFollowedBy(n.parsers[1], parserState, cacheMap)
        [] n.kind = "lazy" -> lazy(n.parsers[1], parserState, cacheMap)
        [] n.kind = "map" -> map(n.parsers[1], n.fn, parserState, cacheMap)

\* ------------------------------------ the runs of the transform functions
RECURSIVE TransformRuns(_, _, _)
RECURSIVE sequenceOfRuns(_, _, _, _)
RECURSIVE oneOfRuns(_, _, _, _)
RECURSIVE repetitionRuns(_, _, _)

\* The calls of transform that the transform function of p makes on
\* parserState, and so the runs of transform functions they cause: a
\* sequenceOf goes on to the next child unless the child returned an error
\* state, a oneOf goes on after an error other than an unexpected end of a
\* non-final input, a repetition goes round unless the child returned an
\* error state, the others call their one child, the primitives call none.
StateTransformFnRuns(p, parserState, cacheMap) ==
  LET n == Parsers[p]
  IN  CASE n.kind \in {"literal", "anyChar", "charFrom", "endOfInput"} -> <<>>
        [] n.kind = "sequenceOf" ->
             sequenceOfRuns(n.parsers, 1, parserState, cacheMap)
        [] n.kind = "oneOf" -> oneOfRuns(n.parsers, 1, parserState, cacheMap)
        [] n.kind \in {"zeroOrMore", "oneOrMore"} ->
             repetitionRuns(n.parsers[1], parserState, cacheMap)
        [] OTHER -> TransformRuns(n.parsers[1], parserState, cacheMap)

\* The runs of transform functions during p.transform(parserState), in the
\* order they start: none when the state is an error state or the memo
\* answers, else the run of p's own function followed by the runs it causes.
\* A run is recorded with its parser, the index it ran at and the state it
\* returned (whose input is the snapshot it ran on).
TransformRuns(p, parserState, cacheMap) ==
  IF isErrorState(parserState) THEN <<>>
  ELSE IF /\ <<p, parserState.index>> \in DOMAIN cacheMap
          /\ CacheReusable(cacheMap[<<p, parserState.index>>], parserState)
  THEN <<>>
  ELSE <<[parser |-> p, index |-> parserState.index,
          state |-> StateTransformFn(p, parserState, cacheMap).state]>>
         \o StateTransformFnRuns(p, parserState, cacheMap)

sequenceOfRuns(parsers, i, currentParserState, cacheMap) ==
  IF i > Len(parsers) THEN <<>>
  ELSE LET next == Transform(parsers[i], currentParserState, cacheMap)
       IN  TransformRuns(parsers[i], currentParserState, cacheMap)
             \o (IF isErrorState(next.state) THEN <<>>
                 ELSE sequenceOfRuns(parsers, i + 1, next.state, next.cacheMap))

oneOfRuns(parsers, i, parserState, cacheMap) ==
  IF i > Len(parsers) THEN <<>>
  ELSE LET next == Transform(parsers[i], parserState, cacheMap)
       IN  TransformRuns(parsers[i], parserState, cacheMap)
             \o (IF isErrorState(next.state) /\ ~isUnexpectedEndOfInput(next.state)
                 THEN oneOfRuns(parsers, i + 1, parserState, next.cacheMap)
                 ELSE <<>>)

repetitionRuns(parser, currentParserState, cacheMap) ==
  LET next == Transform(parser, currentParserState, cacheMap)
  IN  TransformRuns(parser, currentParserState, cacheMap)
        \o (IF isErrorState(next.state) THEN <<>>
            ELSE repetitionRuns(parser, next.state, next.cacheMap))

\* How often p.transform(parserState) makes the lazy parser p call its
\* parserThunk: once at every run of p's state transform function, the runs
\* that the thunk's own parser causes by calling p.transform again included;
\* never for another kind of parser.
ThunkCalls(p, parserState, cacheMap) ==
  IF Parsers[p].kind = "lazy"
  THEN Len(SelectSeq(TransformRuns(p, parserState, cacheMap),
                     LAMBDA run : run.parser = p))
  ELSE 0

\* ------------------------------------------------------------ entry points
\* The state parseString and parseIterable start from.
StartState(value, done) ==
  ParserState(value, done, 0, PARTIAL, Null, NoError)

\* Parser.parseString(input) of the parser object p: the returned state and
\* the map its cacheMap field refers to.
parseString(p, input) ==
  Transform(p, StartState(input, TRUE), EmptyCacheMap)

\* The chunk loop without its second `continue` (no-progress states yielded).
SuppressedOnlyEndOfInput(currentState, nextState) ==
  /\ nextState.status = ERROR
  /\ nextState.error = ParserUnexpectedEndOfInputError

\* The two `continue` conditions of the chunk loop of parseIterable.
Suppressed(currentState, nextState) ==
  \/ /\ nextState.status = ERROR
     /\ nextState.error = ParserUnexpectedEndOfInputError
  \/ /\ currentState.input.value = nextState.input.value
     /\ currentState.index = nextState.index
     /\ currentState.status = nextState.status

\* The chunk loop without the `return` after its yield.
ReturnsAfterYieldNever(state) == FALSE

\* The chunk loop returning after an ERROR only.
ReturnsAfterYieldOnError(state) == state.status = ERROR

\* The condition of the `return` that follows the yield in the chunk loop.
ReturnsAfterYield(state) == state.status # PARTIAL

\* The state handed to transform: {...currentParserState, input, index: 0}.
Restart(currentState, value, done) ==
  [currentState EXCEPT !.input = [value |-> value, done |-> done], !.index = 0]

\* ------------------------------------------------------------ the machine
VARIABLES
  parser,              \* the parser object the methods are called on
  chunks,              \* what the iterable given to parseIterable yields
  pos,                 \* how many chunks the for loop has pulled
  pc,                  \* "loop": the generator runs, "yielded": suspended at
                       \* the yield of the chunk loop, "flushed": suspended
                       \* at the final yield, "done": it returned
  currentInputValue,   \* let currentInputValue
  currentParserState,  \* let currentParserState
  nextParserState,     \* const nextParserState of the last iteration, <<>> before
  cacheMap,            \* the cacheMap created by parseIterable
  emitted,             \* the states yielded so far
  whole,               \* what the parseString calls on the joined chunks returned
  asyncPc,             \* "start": parseAsyncIterable not run yet, "done": it returned
  asyncEmitted,        \* the states parseAsyncIterable yielded
  entry,               \* the state handed to parser.transform (one application)
  returned,            \* <<>>, or <<r>>: r returned by that application
  thunkCalls,          \* how often the parserThunk of the lazy parser under
                       \* parse has been called
  loopState,           \* let currentParserState of the while loop of the
                       \* repetition under parse, <<>> outside the loop
  results,             \* const result of that loop
  bodyRuns             \* the runs of state transform functions so far: which
                       \* parser, at which index, and the state returned

vars == <<parser, chunks, pos, pc, currentInputValue, currentParserState,
          nextParserState, cacheMap, emitted, whole, asyncPc, asyncEmitted,
          entry, returned, thunkCalls, loopState, results, bodyRuns>>

\* The variables of the while loop of a repetition.
whileVars == <<loopState, results>>

\* The variables of the parseIterable generator.
iterableVars == <<pos, pc, currentInputValue, currentParserState,
                  nextParserState, cacheMap, emitted>>

\* The variables of parseAsyncIterable.
asyncVars == <<asyncPc, asyncEmitted>>

\* The variables of a single application of transform.
applyVars == <<entry, returned>>

\* parseString is called at most MaxParses times on one parser object.
MaxParses == 2

\* The strings of at most MaxInput characters.
Strings == UNION {[1..n -> Alphabet] : n \in 0..MaxInput}

RECURSIVE Join(_)
\* The concatenation of a list of chunks.
Join(cs) == IF cs = <<>> THEN <<>> ELSE Head(cs) \o Join(Tail(cs))

\* The ways of cutting s into k >= 1 chunks (empty chunks included).
Partitions(s, k) ==
  LET cuts == {c \in [0..k -> 0..Len(s)] :
                 /\ c[0] = 0
                 /\ c[k] = Len(s)
                 /\ \A i \in 1..k : c[i - 1] <= c[i]}
  IN  {[i \in 1..k |-> SubSeq(s, c[i - 1] + 1, c[i])] : c \in cuts}

\* The finite iterables of strings the model feeds to parseIterable.
Iterables ==
  {<<>>} \cup UNION {Partitions(s, k) : s \in Strings, k \in 1..MaxChunks}

Init ==
  /\ parser \in AlphabetParsers
  /\ chunks \in Iterables
  /\ pos = 0
  /\ pc = "loop"
  /\ currentInputValue = <<>>
  /\ currentParserState = StartState(<<>>, FALSE)
  /\ nextParserState = <<>>
  /\ cacheMap = EmptyCacheMap
  /\ emitted = <<>>
  /\ whole = <<>>
  /\ asyncPc = "start"
  /\ asyncEmitted = <<>>
  /\ entry = <<>>
  /\ returned = <<>>
  /\ thunkCalls = 0
  /\ loopState = <<>>
  /\ results = <<>>
  /\ bodyRuns = <<>>

\* One iteration of `for(let chunk of input)` up to its yield: pull a chunk,
\* re-run the parser from index 0 on the grown buffer, then continue, or
\* yield the state and stay suspended until the consumer resumes.
LoopIteration ==
  /\ pc = "loop"
  /\ pos < Len(chunks)
  /\ LET value == currentInputValue \o chunks[pos + 1]
         next == Transform(parser, Restart(currentParserState, value, FALSE),
                           cacheMap)
     IN  /\ pos' = pos + 1
         /\ currentInputValue' = value
         /\ cacheMap' = next.cacheMap
         /\ nextParserState' = <<next.state>>
         /\ IF Suppressed(currentParserState, next.state)
            THEN UNCHANGED <<currentParserState, emitted, pc>>
            ELSE /\ currentParserState' = next.state
                 /\ emitted' = Append(emitted, next.state)
                 /\ pc' = "yielded"
         /\ thunkCalls' = thunkCalls
              + ThunkCalls(parser, Restart(currentParserState, value, FALSE), cacheMap)
  /\ UNCHANGED <<parser, chunks, whileVars, bodyRuns, whole, asyncVars, applyVars>>

\* The final transform run with done = false.
FlushNotDone ==
  /\ pc = "loop"
  /\ pos = Len(chunks)
  /\ LET next == Transform(parser, Restart(currentParserState, currentInputValue, FALSE),
                           cacheMap)
     IN  /\ currentParserState' = next.state
         /\ cacheMap' = next.cacheMap
         /\ emitted' = Append(emitted, next.state)
  /\ pc' = "flushed"
  /\ thunkCalls' = thunkCalls
       + ThunkCalls(parser, Restart(currentParserState, currentInputValue, FALSE),
                    cacheMap)
  /\ UNCHANGED <<parser, chunks, whileVars, bodyRuns, pos, currentInputValue, nextParserState, whole,
                 asyncVars, applyVars>>

\* The iterable is exhausted: the transform with done = true, yielded
\* unconditionally; the generator stays suspended at this last yield.
Flush ==
  /\ pc = "loop"
  /\ pos = Len(chunks)
  /\ LET next == Transform(parser, Restart(currentParserState, currentInputValue, TRUE),
                           cacheMap)
     IN  /\ currentParserState' = next.state
         /\ cacheMap' = next.cacheMap
         /\ emitted' = Append(emitted, next.state)
  /\ pc' = "flushed"
  /\ thunkCalls' = thunkCalls
       + ThunkCalls(parser, Restart(currentParserState, currentInputValue, TRUE),
                    cacheMap)
  /\ UNCHANGED <<parser, chunks, whileVars, bodyRuns, pos, currentInputValue, nextParserState, whole,
                 asyncVars, applyVars>>

\* parser.parseString(chunks.join("")), called (again) on the same parser
\* object once the generator has returned.
ParseString ==
  /\ pc = "done"
  /\ Len(whole) < MaxParses
  /\ whole' = Append(whole, parseString(parser, Join(chunks)))
  /\ thunkCalls' = thunkCalls
       + ThunkCalls(parser, StartState(Join(chunks), TRUE), EmptyCacheMap)
  /\ UNCHANGED <<parser, chunks, whileVars, bodyRuns, iterableVars, asyncVars, applyVars>>

\* parser.parseAsyncIterable(chunks) driven to its end: the generator body
\* of src/index.js is empty, so it returns without a yield.
ParseAsyncIterable ==
  /\ pc = "done"
  /\ asyncPc = "start"
  /\ asyncPc' = "done"
  /\ asyncEmitted' = asyncEmitted
  /\ UNCHANGED <<parser, chunks, whileVars, bodyRuns, iterableVars, whole, applyVars, thunkCalls>>

\* The consumer calls next() on the suspended generator: after the yield of
\* the chunk loop it returns when the state it yielded is not PARTIAL, else
\* the loop goes on; after the final yield it returns.
Resume ==
  /\ pc \in {"yielded", "flushed"}
  /\ pc' = IF pc = "yielded" /\ ~ReturnsAfterYield(currentParserState)
           THEN "loop" ELSE "done"
  /\ UNCHANGED <<parser, chunks, whileVars, bodyRuns, pos, currentInputValue,
                 currentParserState, nextParserState, cacheMap, emitted,
                 whole, asyncVars, applyVars, thunkCalls>>

Next == LoopIteration \/ Flush \/ Resume \/ ParseString \/ ParseAsyncIterable

Spec == Init /\ [][Next]_vars

\* ------------------------------------------- one application of transform
\* The states a transform can be handed: any index of any buffer, final or
\* not, after a predecessor that succeeded (its status and result are kept
\* by the spread {...parserState}).
EntryStates ==
  UNION {{ParserState(value, done, index, status, result, NoError) :
            index \in 0..Len(value), done \in BOOLEAN,
            status \in {PARTIAL, COMPLETE}, result \in {Null, Str(<<"b">>)}} :
          value \in Strings}

InitApply ==
  /\ parser \in AlphabetParsers
  /\ entry \in EntryStates
  /\ returned = <<>>
  /\ chunks = <<>>
  /\ pos = 0
  /\ pc = "done"
  /\ currentInputValue = <<>>
  /\ currentParserState = StartState(<<>>, FALSE)
  /\ nextParserState = <<>>
  /\ cacheMap = EmptyCacheMap
  /\ emitted = <<>>
  /\ whole = <<>>
  /\ asyncPc = "done"
  /\ asyncEmitted = <<>>
  /\ thunkCalls = 0
  /\ loopState = <<>>
  /\ results = <<>>
  /\ bodyRuns = <<>>

\* parser.transform(entry) with a new Map() as the state's cacheMap.
Apply ==
  /\ returned = <<>>
  /\ returned' = <<Transform(parser, entry, EmptyCacheMap)>>
  /\ UNCHANGED <<parser, chunks, whileVars, bodyRuns, iterableVars, whole, asyncVars, entry,
                 thunkCalls>>

NextApply == Apply

SpecApply == InitApply /\ [][NextApply]_vars

\* ------------------------------------------ parseString of nested arrays
\* The deepest nesting of the inputs given to the array grammars.
MaxDepth == 3

\* The digits.
Digits == {"0", "1", "2", "3", "4", "5", "6", "7", "8", "9"}

\* The string of n characters c.
Repeat(c, n) == [k \in 1..n |-> c]

\* d opening brackets, one digit, e closing brackets.
NestedInput(d, digit, e) == Repeat("[", d) \o <<digit>> \o Repeat("]", e)

\* parseString is about to be called on an array grammar with such an
\* input, balanced or not.
InitNested ==
  /\ parser \in ArrayParsers
  /\ entry \in {StartState(NestedInput(d, digit, e), TRUE) :
                  d \in 0..MaxDepth, e \in 0..MaxDepth, digit \in Digits}
  /\ returned = <<>>
  /\ chunks = <<>>
  /\ pos = 0
  /\ pc = "done"
  /\ currentInputValue = <<>>
  /\ currentParserState = StartState(<<>>, FALSE)
  /\ nextParserState = <<>>
  /\ cacheMap = EmptyCacheMap
  /\ emitted = <<>>
  /\ whole = <<>>
  /\ asyncPc = "done"
  /\ asyncEmitted = <<>>
  /\ thunkCalls = 0
  /\ loopState = <<>>
  /\ results = <<>>
  /\ bodyRuns = <<>>

NextNested == Apply

SpecNested == InitNested /\ [][NextNested]_vars

\* ------------------------------------- transform on the map of a parse
\* The states an earlier transform of the same parse can have been handed at
\* the index of state: the buffer was a prefix of the present one and not
\* final, or it was the present input; the predecessor it followed need not
\* be the present one, so its status and result may differ.
EarlierStates(state) ==
  {earlier \in EntryStates :
     /\ earlier.index = state.index
     /\ Len(earlier.input.value) <= Len(state.input.value)
     /\ earlier.input.value = SubSeq(state.input.value, 1, Len(earlier.input.value))
     /\ earlier.input.done => earlier.input = state.input}

\* transform is about to be called with a map that is new, or that an
\* earlier transform of the parser at the same index has written.
InitMemo ==
  /\ parser \in AlphabetParsers
  /\ entry \in EntryStates
  /\ cacheMap \in {EmptyCacheMap} \cup
       {Transform(parser, earlier, EmptyCacheMap).cacheMap :
          earlier \in EarlierStates(entry)}
  /\ returned = <<>>
  /\ chunks = <<>>
  /\ pos = 0
  /\ pc = "done"
  /\ currentInputValue = <<>>
  /\ currentParserState = StartState(<<>>, FALSE)
  /\ nextParserState = <<>>
  /\ emitted = <<>>
  /\ whole = <<>>
  /\ asyncPc = "done"
  /\ asyncEmitted = <<>>
  /\ thunkCalls = 0
  /\ loopState = <<>>
  /\ results = <<>>
  /\ bodyRuns = <<>>

\* parser.transform(entry), the state's cacheMap being the map of the parse.
ApplyMemo ==
  /\ returned = <<>>
  /\ returned' = <<Transform(parser, entry, cacheMap)>>
  /\ UNCHANGED <<parser, chunks, whileVars, bodyRuns, iterableVars, whole, asyncVars, entry,
                 thunkCalls>>

NextMemo == ApplyMemo

SpecMemo == InitMemo /\ [][NextMemo]_vars

\* ------------------------------------------ transform on an error state
\* The error states a transform can be handed: what a failed predecessor
\* returned, at any index of any buffer.
ErrorEntryStates ==
  UNION {{ParserState(value, done, index, ERROR, Null, error) :
            index \in 0..Len(value), done \in BOOLEAN,
            error \in {ParserUnexpectedEndOfInputError, MismatchError}} :
          value \in Strings}

\* transform is about to be called with an error state; the map is new, or
\* the parser has been applied at that index of that input before.
InitError ==
  /\ parser \in AlphabetParsers
  /\ entry \in ErrorEntryStates
  /\ cacheMap \in {EmptyCacheMap,
                   Transform(parser, [entry EXCEPT !.status = PARTIAL,
                                                   !.error = NoError],
                             EmptyCacheMap).cacheMap}
  /\ returned = <<>>
  /\ chunks = <<>>
  /\ pos = 0
  /\ pc = "done"
  /\ currentInputValue = <<>>
  /\ currentParserState = StartState(<<>>, FALSE)
  /\ nextParserState = <<>>
  /\ emitted = <<>>
  /\ whole = <<>>
  /\ asyncPc = "done"
  /\ asyncEmitted = <<>>
  /\ thunkCalls = 0
  /\ loopState = <<>>
  /\ results = <<>>
  /\ bodyRuns = <<>>

NextError == ApplyMemo

SpecError == InitError /\ [][NextError]_vars

\* ------------------------- parseIterable on a repetition, loop by loop
\* The repetitions of the model.
RepeatParsers ==
  {p \in ParserIds : Parsers[p].kind \in {"zeroOrMore", "oneOrMore"}}

\* The model follows a while loop for at most MaxResults pushes.  A loop that
\* returns has advanced the index at every push, so it has pushed at most
\* MaxInput elements.
MaxResults == MaxInput + 1

\* result.push(value)
Push(result, value) == Append(result, value)

\* What the repetition returns when the child returned the error state next:
\* the return inside the loop (unexpected end of a non-final input), or the
\* returns after the break.
RepetitionReturn(kind, state, result, next) ==
  IF isUnexpectedEndOfInput(next)
  THEN [state EXCEPT !.status = PARTIAL, !.result = Arr(result)]
  ELSE IF kind = "zeroOrMore"
  THEN [state EXCEPT !.status = IF Len(result) = 0 THEN COMPLETE
                                ELSE state.status,
                     !.result = Arr(result)]
  ELSE IF Len(result) = 0
  THEN [state EXCEPT !.status = ERROR, !.error = EmptyRepetitionError]
  ELSE [state EXCEPT !.result = Arr(result)]

\* What parseIterable does with the state next that this.transform(state)
\* returned, up to its yield: in the chunk loop continue, or yield; after the
\* loop yield.  The generator stays suspended at the yield.
Deliver(state, next) ==
  IF state.input.done
  THEN /\ currentParserState' = next
       /\ emitted' = Append(emitted, next)
       /\ pc' = "flushed"
       /\ UNCHANGED nextParserState
  ELSE /\ nextParserState' = <<next>>
       /\ IF Suppressed(currentParserState, next)
          THEN /\ pc' = "loop"
               /\ UNCHANGED <<currentParserState, emitted>>
          ELSE /\ currentParserState' = next
               /\ emitted' = Append(emitted, next)
               /\ pc' = "yielded"

InitRepeat ==
  /\ parser \in RepeatParsers
  /\ chunks \in Iterables
  /\ pos = 0
  /\ pc = "loop"
  /\ currentInputValue = <<>>
  /\ currentParserState = StartState(<<>>, FALSE)
  /\ nextParserState = <<>>
  /\ cacheMap = EmptyCacheMap
  /\ emitted = <<>>
  /\ whole = <<>>
  /\ asyncPc = "done"
  /\ asyncEmitted = <<>>
  /\ entry = <<>>
  /\ returned = <<>>
  /\ thunkCalls = 0
  /\ loopState = <<>>
  /\ results = <<>>
  /\ bodyRuns = <<>>

\* parseIterable calls this.transform: with the next chunk appended and
\* done = false, or, the iterable exhausted, with done = true.  transform
\* answers from the memo, or calls the repetition's transform function,
\* which starts its while loop.
CallTransform ==
  /\ pc = "loop"
  /\ LET done == pos = Len(chunks)
         value == IF done THEN currentInputValue
                  ELSE currentInputValue \o chunks[pos + 1]
         state == Restart(currentParserState, value, done)
     IN  /\ pos' = IF done THEN pos ELSE pos + 1
         /\ currentInputValue' = value
         /\ entry' = state
         /\ IF \/ isErrorState(state)
               \/ /\ <<parser, state.index>> \in DOMAIN cacheMap
                  /\ CacheReusable(cacheMap[<<parser, state.index>>], state)
            THEN /\ Deliver(state, Transform(parser, state, cacheMap).state)
                 /\ UNCHANGED <<cacheMap, whileVars>>
            ELSE /\ pc' = "while"
                 /\ loopState' = state
                 /\ results' = <<>>
                 /\ UNCHANGED <<cacheMap, currentParserState, emitted,
                                nextParserState>>
  /\ UNCHANGED <<parser, chunks, whole, asyncVars, returned, thunkCalls,
                 bodyRuns>>

\* while(true) of zeroOrMore or oneOrMore, up to the push: the child is
\* applied to the loop's state; on an error state the transform function
\* returns, transform stores the state it returned and parseIterable goes
\* on; otherwise the loop is about to push the result.
WhileIteration ==
  /\ pc = "while"
  /\ LET next == Transform(Parsers[parser].parsers[1], loopState, cacheMap)
     IN  IF isErrorState(next.state)
         THEN LET nextState == RepetitionReturn(Parsers[parser].kind,
                                                loopState, results, next.state)
              IN  /\ cacheMap' = CacheSet(next.cacheMap,
                                          <<parser, entry.index>>, nextState)
                  /\ Deliver(entry, nextState)
                  /\ loopState' = <<>>
                  /\ results' = <<>>
                  /\ UNCHANGED returned
         ELSE /\ returned' = <<next>>
              /\ cacheMap' = next.cacheMap
              /\ pc' = "push"
              /\ UNCHANGED <<whileVars, currentParserState, emitted,
                             nextParserState>>
  /\ UNCHANGED <<parser, chunks, pos, currentInputValue, whole, asyncVars,
                 entry, thunkCalls, bodyRuns>>

\* result.push(nextParserState.result); currentParserState = nextParserState,
\* and the loop goes round.
PushResult ==
  /\ pc = "push"
  /\ Len(results) < MaxResults
  /\ results' = Push(results, returned[1].state.result)
  /\ loopState' = returned[1].state
  /\ returned' = <<>>
  /\ pc' = "while"
  /\ UNCHANGED <<parser, chunks, pos, currentInputValue, currentParserState,
                 nextParserState, cacheMap, emitted, whole, asyncVars, entry,
                 thunkCalls, bodyRuns>>

NextRepeat == CallTransform \/ WhileIteration \/ PushResult \/ Resume

\* The generator has not returned, the model still follows its while loop,
\* and its position changes.
Runs ==
  /\ pc # "done"
  /\ pc = "push" => Len(results) < MaxResults
  /\ pc' \in {"loop", "while", "push", "yielded", "flushed", "done"}

\* The consumer drives the generator to its end and a running loop goes on:
\* while the generator has not returned, its position changes again (up to
\* the MaxResults pushes the model follows).
SpecRepeat == InitRepeat /\ [][NextRepeat]_vars /\ WF_pc(Runs)

\* ------------------------- parseIterable with the runs it causes recorded
InitPackrat ==
  /\ parser \in AlphabetParsers \cup PackratParsers
  /\ chunks \in Iterables
  /\ pos = 0
  /\ pc = "loop"
  /\ currentInputValue = <<>>
  /\ currentParserState = StartState(<<>>, FALSE)
  /\ nextParserState = <<>>
  /\ cacheMap = EmptyCacheMap
  /\ emitted = <<>>
  /\ whole = <<>>
  /\ asyncPc = "done"
  /\ asyncEmitted = <<>>
  /\ entry = <<>>
  /\ returned = <<>>
  /\ thunkCalls = 0
  /\ loopState = <<>>
  /\ results = <<>>
  /\ bodyRuns = <<>>

\* parseIterable calls this.transform, with the next chunk appended and
\* done = false, or, the iterable exhausted, with done = true, and goes on
\* with the state it returns; bodyRuns gains the runs of transform functions
\* the call caused.
TransformCall ==
  /\ pc = "loop"
  /\ LET done == pos = Len(chunks)
         value == IF done THEN currentInputValue
                  ELSE currentInputValue \o chunks[pos + 1]
         state == Restart(currentParserState, value, done)
         next == Transform(parser, state, cacheMap)
     IN  /\ pos' = IF done THEN pos ELSE pos + 1
         /\ currentInputValue' = value
         /\ cacheMap' = next.cacheMap
         /\ Deliver(state, next.state)
         /\ bodyRuns' = bodyRuns \o TransformRuns(parser, state, cacheMap)
  /\ UNCHANGED <<parser, chunks, whileVars, whole, asyncVars, applyVars,
                 thunkCalls>>

NextPackrat == TransformCall \/ Resume

SpecPackrat == InitPackrat /\ [][NextPackrat]_vars

\* ------------------------------------- followedBy and notFollowedBy of p
\* followedBy(p) and notFollowedBy(p) are about to be applied to the same
\* entry state, each with a new Map() as the state's cacheMap.
InitLookahead ==
  /\ parser \in AlphabetParsers
  /\ entry \in EntryStates
  /\ returned = <<>>
  /\ chunks = <<>>
  /\ pos = 0
  /\ pc = "done"
  /\ currentInputValue = <<>>
  /\ currentParserState = StartState(<<>>, FALSE)
  /\ nextParserState = <<>>
  /\ cacheMap = EmptyCacheMap
  /\ emitted = <<>>
  /\ whole = <<>>
  /\ asyncPc = "done"
  /\ asyncEmitted = <<>>
  /\ thunkCalls = 0
  /\ loopState = <<>>
  /\ results = <<>>
  /\ bodyRuns = <<>>

\* The parser objects that followedBy(p) and notFollowedBy(p) return: new
\* objects, so memo keys that no parser of the pool has.
FollowedByOf(p) == Cardinality(ParserIds) + p

NotFollowedByOf(p) == 2 * Cardinality(ParserIds) + p

\* What transform returns when the state transform function of the parser
\* object id, run on parserState, returned next: the state, stored in the map
\* under the parser and the entry index.
TransformStored(id, parserState, next) ==
  Out(next.state,
      CacheSet(next.cacheMap, <<id, parserState.index>>, next.state))

\* followedBy(parser).transform(entry) and notFollowedBy(parser)
\* .transform(entry): the entry state is no error state and the map is new,
\* so transform runs the state transform function and stores the state it
\* returned.  The first element is the positive lookahead's answer, the
\* second the negative lookahead's.
ApplyLookahead ==
  /\ returned = <<>>
  /\ returned' =
       <<TransformStored(FollowedByOf(parser), entry,
                         followedBy(parser, entry, EmptyCacheMap)),
         TransformStored(NotFollowedByOf(parser), entry,
                         notFollowedBy(parser, entry, EmptyCacheMap))>>
  /\ UNCHANGED <<parser, chunks, whileVars, bodyRuns, iterableVars, whole, asyncVars, entry,
                 thunkCalls>>

NextLookahead == ApplyLookahead

SpecLookahead == InitLookahead /\ [][NextLookahead]_vars

\* ------------------------------------------------------------ properties
\* Two states agree on status, index, result and error.
SameAnswer(s1, s2) ==
  /\ s1.status = s2.status
  /\ s1.index = s2.index
  /\ s1.result = s2.result
  /\ s1.error = s2.error

\* The last state yielded.
LastEmitted == emitted[Len(emitted)]

\* The state the no-progress test compares with: the last one yielded, or the
\* start state when nothing was yielded yet.
PreviouslyEmitted ==
  IF emitted = <<>> THEN StartState(<<>>, FALSE) ELSE LastEmitted

\* A non-PARTIAL state was yielded inside the chunk loop (done = false).
TerminalEmittedInLoop ==
  \E i \in 1..Len(emitted) :
    emitted[i].status # PARTIAL /\ ~emitted[i].input.done

\* Every chunk of the iterable is the empty string.
AllChunksEmpty == \A i \in 1..Len(chunks) : chunks[i] = <<>>

\* C1: streaming does not change the answer: once parseIterable has finished
\* on chunks c1..ck, its last yielded state has the status, index, result and
\* error of parseString(c1 ++ ... ++ ck).
C1_StreamingSameAnswer ==
  (pc = "done" /\ whole # <<>>) => SameAnswer(LastEmitted, whole[1].state)

\* C2: index never decreases from one yielded state to the next.
C2_IndexMonotone ==
  \A i \in 1..(Len(emitted) - 1) : emitted[i].index <= emitted[i + 1].index

\* C3: the yielded statuses are PARTIAL* followed by at most one terminal
\* state: every yielded state but the last is PARTIAL, and once a COMPLETE or
\* ERROR state is yielded the generator is suspended at that yield or has
\* returned (it does not run the chunk loop again), so nothing follows it.
C3_PartialsThenOneTerminal ==
  /\ \A i \in 1..(Len(emitted) - 1) : emitted[i].status = PARTIAL
  /\ (emitted # <<>> /\ LastEmitted.status # PARTIAL) =>
       pc \in {"yielded", "flushed", "done"}
  /\ Cardinality({i \in 1..Len(emitted) : emitted[i].status # PARTIAL}) <= 1

\* C3 witness: two PARTIAL states and then a terminal one have been yielded.
C3_Witness ==
  /\ Len(emitted) = 3
  /\ emitted[1].status = PARTIAL
  /\ emitted[2].status = PARTIAL
  /\ emitted[3].status = COMPLETE
  /\ pc = "done"

\* C4 (as stated): when parseIterable has finished, the last yielded state is
\* the one produced with input.done = true on the fully accumulated buffer.
C4_FinalStateIsDoneFlush ==
  pc = "done" =>
    /\ LastEmitted.input.done
    /\ LastEmitted.input.value = Join(chunks)

\* C4 (amended): when parseIterable has finished, either no terminal state
\* was yielded inside the chunk loop, every chunk was pulled and the last
\* yielded state was produced with done = true on the fully accumulated
\* buffer, all earlier ones being PARTIAL with done = false; or the last
\* yielded state is the terminal state of the loop, with done = false, on the
\* buffer of the chunks pulled so far.
C4_FinalStateAmended ==
  pc = "done" =>
    /\ emitted # <<>>
    /\ LastEmitted.input.value = Join(SubSeq(chunks, 1, pos))
    /\ \A i \in 1..(Len(emitted) - 1) : ~emitted[i].input.done
    /\ LastEmitted.input.done =>
         /\ pos = Len(chunks)
         /\ \A i \in 1..(Len(emitted) - 1) : emitted[i].status = PARTIAL
    /\ ~LastEmitted.input.done => LastEmitted.status # PARTIAL
    /\ LastEmitted.input.done <=> ~TerminalEmittedInLoop

\* C4 witness: PARTIAL states were yielded in the loop, the source ran dry
\* and the done = true state was yielded last.
C4_Witness ==
  /\ pc = "done"
  /\ Len(emitted) >= 2
  /\ LastEmitted.input.done
  /\ Len(chunks) >= 2
  /\ LastEmitted.status = COMPLETE

\* C5: once a terminal state has been yielded inside the chunk loop, no
\* further chunk is pulled from the source.
C5_NoPullAfterTerminal ==
  [][TerminalEmittedInLoop => pos' = pos]_vars

\* C5 witness: a terminal state was yielded in the loop while chunks were
\* still waiting in the source, and the program went on (to parseString).
C5_Witness ==
  /\ TerminalEmittedInLoop
  /\ pos < Len(chunks)
  /\ whole # <<>>

\* C6: in the chunk loop the newly computed state is yielded if and only if
\* it is not an unexpected-end-of-input ERROR and differs from the previously
\* yielded state (at first the start state) in input.value, index or status;
\* so no unexpected-end-of-input ERROR is yielded before the final flush.
C6_EmittedIffProgress ==
  /\ [][pos' = pos + 1 =>
          LET next == nextParserState'[1]
              prev == PreviouslyEmitted
              unexpectedEnd == /\ next.status = ERROR
                               /\ next.error = ParserUnexpectedEndOfInputError
              differs == \/ prev.input.value # next.input.value
                         \/ prev.index # next.index
                         \/ prev.status # next.status
          IN  /\ (~unexpectedEnd /\ differs) => emitted' = Append(emitted, next)
              /\ ~(~unexpectedEnd /\ differs) => emitted' = emitted]_vars
  /\ [](\A i \in 1..Len(emitted) :
          (emitted[i].status = ERROR
             /\ emitted[i].error = ParserUnexpectedEndOfInputError)
          => emitted[i].input.done)

\* C6 witness: the loop has suppressed an unexpected-end-of-input ERROR (a
\* literal on the empty buffer), has yielded a PARTIAL state, and has
\* suppressed the same state computed again after an empty chunk.
C6_Witness ==
  /\ Parsers[parser].kind = "literal"
  /\ pos = 3
  /\ Len(emitted) = 1
  /\ chunks[1] = <<>>
  /\ chunks[3] = <<>>
  /\ nextParserState # <<>>
  /\ nextParserState[1].status = PARTIAL
  /\ nextParserState[1] = LastEmitted

\* C7: when every chunk is the empty string nothing is yielded before the
\* final flush, and the one state yielded (with done = true) has the status,
\* index, result and error of parseString("").
C7_EmptyChunks ==
  AllChunksEmpty =>
    /\ pc = "loop" => emitted = <<>>
    /\ pc = "done" =>
         /\ Len(emitted) = 1
         /\ emitted[1].input.done
         /\ emitted[1].input.value = <<>>
         /\ whole # <<>> => SameAnswer(emitted[1], whole[1].state)

\* C7 witness: several empty chunks were pulled, the flush state was yielded
\* and parseString("") was run; the parser left entries in the memo on the way.
C7_Witness ==
  /\ AllChunksEmpty
  /\ Len(chunks) >= 2
  /\ pos = Len(chunks)
  /\ pc = "done"
  /\ whole # <<>>
  /\ emitted[1].status = COMPLETE

\* C8: no transform applied to a state with input.done = true returns
\* PARTIAL: parseString never returns PARTIAL, and no state a transform
\* function produced on a final input (each is stored in the memo) is PARTIAL.
C8_NoPartialWhenDone ==
  /\ whole # <<>> =>
       /\ whole[1].state.status # PARTIAL
       /\ \A k \in DOMAIN whole[1].cacheMap :
            whole[1].cacheMap[k].input.done => whole[1].cacheMap[k].status # PARTIAL
  /\ \A k \in DOMAIN cacheMap :
       cacheMap[k].input.done => cacheMap[k].status # PARTIAL
  /\ \A i \in 1..Len(emitted) :
       emitted[i].input.done => emitted[i].status # PARTIAL

\* A state is well formed: ERROR exactly when error is non-null, and then
\* result is null.
WellFormed(state) ==
  /\ state.status = ERROR <=> state.error # NoError
  /\ state.status = ERROR => state.result = Null

\* C9: every state returned by parseString or yielded by parseIterable is
\* well formed.
C9_WellFormedStates ==
  /\ \A i \in 1..Len(emitted) : WellFormed(emitted[i])
  /\ whole # <<>> => WellFormed(whole[1].state)

\* C10: every state returned by parseString(s) or yielded by parseIterable
\* has 0 <= index <= length(input.value), input.value being s, or the
\* concatenation of the chunks pulled when the state was yielded.
C10_IndexInBounds ==
  /\ \A i \in 1..Len(emitted) :
       /\ 0 <= emitted[i].index
       /\ emitted[i].index <= Len(emitted[i].input.value)
       /\ \E n \in 0..pos : emitted[i].input.value = Join(SubSeq(chunks, 1, n))
  /\ emitted # <<>> => LastEmitted.input.value = currentInputValue
  /\ whole # <<>> =>
       /\ 0 <= whole[1].state.index
       /\ whole[1].state.index <= Len(whole[1].state.input.value)
       /\ whole[1].state.input.value = Join(chunks)

\* C10 witness: a state was yielded whose parse was answered in part from a
\* COMPLETE memo entry computed on a shorter snapshot, and index is at the
\* end of the buffer.
C10_Witness ==
  /\ Len(emitted) >= 2
  /\ LastEmitted.index = Len(LastEmitted.input.value)
  /\ LastEmitted.index >= 2
  /\ \E k \in DOMAIN cacheMap :
       /\ cacheMap[k].status = COMPLETE
       /\ Len(cacheMap[k].input.value) < Len(LastEmitted.input.value)
  /\ whole # <<>>

\* ------------------------------------------------------------------- C11
\* parseString called on the parser object at any point of the life of a
\* parseIterable generator of the same object: before its first next(), while
\* it is suspended at a yield, after it returned.
Suspended ==
  \/ pc \in {"yielded", "flushed", "done"}
  \/ pc = "loop" /\ nextParserState = <<>>

\* parseString with one Map per parser object instead of `new Map()` per
\* call: the call reads and writes the map the generator uses.
ParseStringInterleavedSharedCacheMap ==
  /\ Suspended
  /\ Len(whole) < MaxParses
  /\ LET next == Transform(parser, StartState(Join(chunks), TRUE), cacheMap)
     IN  /\ whole' = Append(whole, next)
         /\ cacheMap' = next.cacheMap
  /\ thunkCalls' = thunkCalls
       + ThunkCalls(parser, StartState(Join(chunks), TRUE), cacheMap)
  /\ UNCHANGED <<parser, chunks, whileVars, bodyRuns, pos, pc, currentInputValue,
                 currentParserState, nextParserState, emitted, asyncVars,
                 applyVars>>

\* parser.parseString(chunks.join("")) while the generator is not running:
\* the call builds its own state with `cacheMap: new Map()` and touches
\* nothing of the generator.
ParseStringInterleaved ==
  /\ Suspended
  /\ Len(whole) < MaxParses
  /\ whole' = Append(whole, parseString(parser, Join(chunks)))
  /\ thunkCalls' = thunkCalls
       + ThunkCalls(parser, StartState(Join(chunks), TRUE), EmptyCacheMap)
  /\ UNCHANGED <<parser, chunks, whileVars, bodyRuns, iterableVars, asyncVars, applyVars>>

NextParses == LoopIteration \/ Flush \/ Resume \/ ParseStringInterleaved

SpecParses == Init /\ [][NextParses]_vars

\* Every entry of the map a parseString call used was computed by that call:
\* it is a state over the whole input with done = true.
FreshCacheMap(r) ==
  \A k \in DOMAIN r.cacheMap :
    r.cacheMap[k].input = [value |-> Join(chunks), done |-> TRUE]

\* The generator ran its final transform (done = true).
Flushed == emitted # <<>> /\ LastEmitted.input.done

\* Every entry of the generator's map was computed by the generator: over
\* the chunks pulled so far with done = false, or over all of them with
\* done = true once the final transform ran.
GeneratorCacheMap ==
  \A k \in DOMAIN cacheMap :
    IF cacheMap[k].input.done
    THEN Flushed /\ cacheMap[k].input.value = Join(chunks)
    ELSE \E n \in 0..pos :
           cacheMap[k].input.value = Join(SubSeq(chunks, 1, n))

\* All parseString calls made so far returned the same state, memo table
\* included, whatever the generator had done when each was made.
AnswersAgree ==
  \A i, j \in 1..Len(whole) :
    /\ SameAnswer(whole[i].state, whole[j].state)
    /\ whole[i].cacheMap = whole[j].cacheMap

\* The answer of a call owes nothing to the parses made before it: the state
\* a call returns is the answer of transform on a map with no entry.
AnswersOfAnEmptyMap ==
  whole' # whole =>
    SameAnswer(whole'[Len(whole')].state,
               Transform(parser, StartState(Join(chunks), TRUE),
                         EmptyCacheMap).state)

\* No map is shared: a parseString call leaves the generator's map and the
\* results of the earlier calls as they are, and a step of the generator
\* leaves the results of the parseString calls as they are.
NeverShared ==
  /\ whole' # whole =>
       /\ cacheMap' = cacheMap
       /\ Len(whole') = Len(whole) + 1
       /\ SubSeq(whole', 1, Len(whole)) = whole
  /\ cacheMap' # cacheMap => whole' = whole

C12_AsyncSameAsSync ==
  (pc = "done" /\ asyncPc = "done") => asyncEmitted = emitted

\* ------------------------------------------------------------------- C13
\* The parser under parse is literal(t) for a non-empty t and the chunks are
\* a partition of t.
LiteralOfItsInput ==
  /\ Parsers[parser].kind = "literal"
  /\ Parsers[parser].text # <<>>
  /\ Join(chunks) = Parsers[parser].text

\* state is COMPLETE with result t and index |t|.
CompleteWith(state, t) ==
  /\ state.status = COMPLETE
  /\ state.result = Str(t)
  /\ state.index = Len(t)
  /\ state.error = NoError

\* state is PARTIAL over a proper prefix of t that some number of pulled
\* chunks make up, with that prefix as result and its length as index.
PartialPrefixOf(state, t) ==
  /\ state.status = PARTIAL
  /\ \E k \in 0..pos : state.input.value = Join(SubSeq(chunks, 1, k))
  /\ Len(state.input.value) < Len(t)
  /\ state.input.value = SubSeq(t, 1, Len(state.input.value))
  /\ state.result = Str(state.input.value)
  /\ state.index = Len(state.input.value)
  /\ state.error = NoError

\* C13: literal round trip.  For a non-empty text t, literal(t).parseString(t)
\* is COMPLETE with result t and index |t|; for every partition of t into
\* chunks literal(t).parseIterable ends with a COMPLETE state with that
\* result and index, and every state yielded before it is PARTIAL with
\* result the prefix of t seen so far and index that prefix's length.
C13_LiteralRoundTrip ==
  LiteralOfItsInput =>
    LET t == Parsers[parser].text
    IN  /\ \A i \in 1..Len(whole) : CompleteWith(whole[i].state, t)
        /\ pc = "done" => CompleteWith(LastEmitted, t)
        /\ \A i \in 1..Len(emitted) :
             (i < Len(emitted) \/ pc = "loop") => PartialPrefixOf(emitted[i], t)

\* literal("aba") fed "a", "b", "a": two PARTIAL states, then COMPLETE, and
\* parseString("aba") has returned.
C13_Witness ==
  /\ LiteralOfItsInput
  /\ pc = "done"
  /\ Len(emitted) = 3
  /\ emitted[2].status = PARTIAL
  /\ Len(whole) >= 1

\* ------------------------------------------------------------------- C14
\* transform has been applied to a parser of the given kind.
Applied(kind) == returned # <<>> /\ Parsers[parser].kind = kind

\* u is a prefix of t.
IsPrefix(u, t) ==
  /\ Len(u) <= Len(t)
  /\ \A k \in 1..Len(u) : u[k] = t[k]

\* value has text at offset i.
HasAt(value, text, i) ==
  /\ i + Len(text) <= Len(value)
  /\ \A k \in 1..Len(text) : value[i + k] = text[k]

\* state is an ERROR of the given kind at index i.
ErrorAt(state, error, i) ==
  /\ state.status = ERROR
  /\ state.error = error
  /\ state.index = i

\* C14: literal(text) applied at index i decides in this order: (1) no input
\* remains at i: ERROR unexpected-end-of-input at i; (2) else input.done is
\* false and the remaining input is shorter than text and a prefix of it:
\* PARTIAL with result = remaining and index = i + |remaining|; (3) else the
\* input has text at i: COMPLETE with result = text and index = i + |text|;
\* (4) else ERROR mismatch at i.
C14_LiteralDecisionOrder ==
  Applied("literal") =>
    LET text == Parsers[parser].text
        i == entry.index
        remaining == Slice(entry.input.value, i)
        out == returned[1].state
    IN  IF remaining = <<>>
        THEN ErrorAt(out, ParserUnexpectedEndOfInputError, i)
        ELSE IF ~entry.input.done /\ Len(remaining) < Len(text)
                /\ IsPrefix(remaining, text)
        THEN /\ out.status = PARTIAL
             /\ out.result = Str(remaining)
             /\ out.index = i + Len(remaining)
        ELSE IF HasAt(entry.input.value, text, i)
        THEN /\ out.status = COMPLETE
             /\ out.result = Str(text)
             /\ out.index = i + Len(text)
        ELSE ErrorAt(out, MismatchError, i)

\* A literal applied past the start of a non-final buffer returned PARTIAL.
C14_Witness ==
  /\ Applied("literal")
  /\ entry.index > 0
  /\ ~entry.input.done
  /\ returned[1].state.status = PARTIAL

\* ------------------------------------------------------------------- C15
\* transform has been applied to a primitive that consumes characters.
AppliedConsumingPrimitive ==
  /\ returned # <<>>
  /\ Parsers[parser].kind \in {"literal", "anyChar", "charFrom"}

\* The number of characters the primitive under application needs.
Needed ==
  IF Parsers[parser].kind = "literal" THEN Len(Parsers[parser].text) ELSE 1

\* C15 (as claimed): when the characters a primitive needs are not available
\* at the current index, it returns ERROR unexpected-end-of-input if
\* input.done is false and ERROR mismatch if input.done is true.
C15_SharedConvention ==
  (AppliedConsumingPrimitive
     /\ Len(entry.input.value) - entry.index < Needed) =>
    ErrorAt(returned[1].state,
            IF entry.input.done THEN MismatchError
            ELSE ParserUnexpectedEndOfInputError,
            entry.index)

\* C15 (amended): with no character available at the current index, literal,
\* anyChar and charFrom return ERROR unexpected-end-of-input whatever
\* input.done is, and endOfInput returns ERROR unexpected-end-of-input when
\* input.done is false and COMPLETE when it is true: none returns ERROR
\* mismatch there.  With some but too few characters available, literal
\* returns PARTIAL when input.done is false and they are a prefix of text,
\* and ERROR mismatch otherwise.
C15_EndOfBufferConvention ==
  LET kind == Parsers[parser].kind
      remaining == Slice(entry.input.value, entry.index)
      out == returned[1].state
  IN  /\ (AppliedConsumingPrimitive /\ remaining = <<>>) =>
           ErrorAt(out, ParserUnexpectedEndOfInputError, entry.index)
      /\ (Applied("endOfInput") /\ remaining = <<>>) =>
           IF entry.input.done
           THEN out.status = COMPLETE
           ELSE ErrorAt(out, ParserUnexpectedEndOfInputError, entry.index)
      /\ (Applied("literal") /\ remaining # <<>>
            /\ Len(remaining) < Len(Parsers[parser].text)) =>
           IF ~entry.input.done /\ IsPrefix(remaining, Parsers[parser].text)
           THEN out.status = PARTIAL
           ELSE ErrorAt(out, MismatchError, entry.index)

\* anyChar applied at the end of a final input returned an
\* unexpected-end-of-input error.
C15_Witness ==
  /\ Applied("anyChar")
  /\ entry.input.done
  /\ entry.index = Len(entry.input.value)
  /\ returned[1].state.error = ParserUnexpectedEndOfInputError

\* ------------------------------------------------------------------- C16
\* c lies inside the pair: between the smaller and the larger of the two
\* character codes, bounds included.
InRange(pair, c) ==
  \E lo, hi \in {CharCodeAt(pair[1]), CharCodeAt(pair[2])} :
    /\ lo <= hi
    /\ \A x \in {CharCodeAt(pair[1]), CharCodeAt(pair[2])} : lo <= x /\ x <= hi
    /\ lo <= CharCodeAt(c)
    /\ CharCodeAt(c) <= hi

\* c equals a single character of the list or lies inside one of its ranges.
InCharSet(charSet, c) ==
  \E m \in 1..Len(charSet) :
    \/ Len(charSet[m]) = 1 /\ c = charSet[m][1]
    \/ Len(charSet[m]) = 2 /\ InRange(charSet[m], c)

\* C16: charFrom applied at an index with a character c available returns
\* COMPLETE with result c and index + 1 if and only if c equals one of the
\* single characters of the list or its character code lies inside one of
\* the ranges (bounds inclusive, a pair in reverse order standing for the
\* swapped pair); otherwise it returns ERROR mismatch at the entry index.
C16_CharFromMembership ==
  (Applied("charFrom") /\ entry.index < Len(entry.input.value)) =>
    LET c == entry.input.value[entry.index + 1]
        out == returned[1].state
    IN  IF InCharSet(Parsers[parser].charSet, c)
        THEN /\ out.status = COMPLETE
             /\ out.result = Str(<<c>>)
             /\ out.index = entry.index + 1
        ELSE ErrorAt(out, MismatchError, entry.index)

\* charFrom matched a character through a pair given in reverse order.
C16_Witness ==
  /\ Applied("charFrom")
  /\ entry.index < Len(entry.input.value)
  /\ returned[1].state.status = COMPLETE
  /\ \A m \in 1..Len(Parsers[parser].charSet) :
       /\ Len(Parsers[parser].charSet[m]) = 2
       /\ CharCodeAt(Parsers[parser].charSet[m][1])
            > CharCodeAt(Parsers[parser].charSet[m][2])

\* ------------------------------------------------------------------- C17
\* What endOfInput returned when applied at index i, as the memo table of a
\* parse recorded it, is the state the three cases give.
EndOfInputCases(state, i) ==
  IF i < Len(state.input.value)
  THEN ErrorAt(state, MismatchError, i)
  ELSE IF ~state.input.done
  THEN ErrorAt(state, ParserUnexpectedEndOfInputError, i)
  ELSE /\ state.status = COMPLETE
       /\ state.result = Null
       /\ state.index = i

\* Every entry an endOfInput parser has in a memo table follows the three cases.
EndOfInputEntries(entries) ==
  \A k \in DOMAIN entries :
    Parsers[k[1]].kind = "endOfInput" => EndOfInputCases(entries[k], k[2])

\* C17: endOfInput at index i returns ERROR mismatch when i < length, ERROR
\* unexpected-end-of-input when i = length and input.done is false, COMPLETE
\* with result null and unchanged index when i = length and input.done is
\* true; so under streaming it is COMPLETE only in the final done = true
\* flush, and it is yielded as an ERROR as soon as a non-empty chunk has arrived.
C17_EndOfInput ==
  /\ EndOfInputEntries(cacheMap)
  /\ \A n \in 1..Len(whole) : EndOfInputEntries(whole[n].cacheMap)
  /\ Parsers[parser].kind = "endOfInput" =>
       /\ \A n \in 1..Len(emitted) :
            emitted[n].status = COMPLETE =>
              /\ emitted[n].input.done
              /\ pos = Len(chunks)
              /\ n = Len(emitted)
       /\ currentInputValue # <<>> =>
            /\ Len(emitted) = 1
            /\ ErrorAt(emitted[1], MismatchError, 0)
            /\ emitted[1].input.value = currentInputValue
            /\ pc \in {"yielded", "done"}

\* endOfInput streamed: an empty chunk was swallowed, the first non-empty
\* chunk produced the ERROR, and chunks were left unpulled.
C17_Witness ==
  /\ Parsers[parser].kind = "endOfInput"
  /\ pos = 2
  /\ chunks[1] = <<>>
  /\ pos < Len(chunks)
  /\ Len(emitted) = 1
  /\ emitted[1].status = ERROR

\* ------------------------------------------------------------------- C18
\* The children of the sequenceOf under application, run one after the
\* other from the entry state on an empty map: Children[j] is what child j
\* returned and the map it left; Children[0] stands for the entry.  An error
\* state passes through the transforms after it unchanged.
Children ==
  LET parsers == Parsers[parser].parsers
      run[j \in 0..Len(parsers)] ==
        IF j = 0 THEN Out(entry, EmptyCacheMap)
        ELSE Transform(parsers[j], run[j - 1].state, run[j - 1].cacheMap)
  IN  run

\* Child i is the first child that returned an error.
FirstFailure(i) ==
  /\ i \in 1..Len(Parsers[parser].parsers)
  /\ isErrorState(Children[i].state)
  /\ ~isErrorState(Children[i - 1].state)

\* The array of length n holding the results of children 1..i-1, the other
\* slots unfilled.
ResultsBefore(i) ==
  Arr([j \in 1..Len(Parsers[parser].parsers) |->
         IF j < i THEN Children[j].state.result ELSE Undefined])

\* C18: when child pi of sequenceOf(p1..pn) returns an unexpected-end-of-input
\* error over a non-final snapshot, the sequence returns a PARTIAL state
\* whose index is the index of the state before pi ran, whose error is null,
\* and whose result is an array of length n with slots 1..i-1 holding the
\* earlier children's results and slots i..n unfilled.
C18_SequenceSyntheticPartial ==
  Applied("sequenceOf") =>
    \A i \in 1..Len(Parsers[parser].parsers) :
      (FirstFailure(i) /\ isUnexpectedEndOfInput(Children[i].state)) =>
        LET out == returned[1].state
        IN  /\ out.status = PARTIAL
            /\ out.index = Children[i - 1].state.index
            /\ out.error = NoError
            /\ out.result = ResultsBefore(i)
            /\ Len(out.result.a) = Len(Parsers[parser].parsers)

\* A sequence whose first child consumed input and whose second child ran
\* out of a non-final buffer returned its partial state.
C18_Witness ==
  /\ Applied("sequenceOf")
  /\ FirstFailure(2)
  /\ isUnexpectedEndOfInput(Children[2].state)
  /\ Children[1].state.index > entry.index
  /\ returned[1].state.status = PARTIAL

\* ------------------------------------------------------------------- C19
\* Child i failed for good: its error is not an unexpected end of input over
\* a non-final snapshot.
ChildFailed(i) ==
  /\ FirstFailure(i)
  /\ ~isUnexpectedEndOfInput(Children[i].state)

\* The sequence returned exactly the state child i returned, and its map
\* holds what children 1..i left plus the entry of the sequence itself: no
\* later child ran.
ReturnsChildError(i) ==
  /\ returned[1].state = Children[i].state
  /\ returned[1].cacheMap =
       CacheSet(Children[i].cacheMap, <<parser, entry.index>>, Children[i].state)

\* The kinds of parser that report an error at the index they were applied at.
ReportsAtEntry ==
  {"literal", "anyChar", "charFrom", "endOfInput", "followedBy", "notFollowedBy"}

\* C19 (as claimed): when child pi of sequenceOf(p1..pn) returns any error
\* other than unexpected-end-of-input over a non-final snapshot, the sequence
\* returns exactly that child's error state, so the reported index is the
\* offset at which pi was applied, and no later child is run.
C19_SequenceErrorAtChildOffset ==
  Applied("sequenceOf") =>
    \A i \in 1..Len(Parsers[parser].parsers) :
      ChildFailed(i) =>
        /\ ReturnsChildError(i)
        /\ returned[1].state.index = Children[i - 1].state.index

\* C19 (amended): the sequence returns exactly that child's error state and
\* no later child is run; the reported index is the offset at which pi was
\* applied when pi is a primitive, followedBy or notFollowedBy, and is the
\* index of whatever error state pi returned otherwise.
C19_SequenceReturnsChildError ==
  Applied("sequenceOf") =>
    \A i \in 1..Len(Parsers[parser].parsers) :
      ChildFailed(i) =>
        /\ ReturnsChildError(i)
        /\ Parsers[Parsers[parser].parsers[i]].kind \in ReportsAtEntry =>
             returned[1].state.index = Children[i - 1].state.index

\* A sequence whose first child is itself a sequence that failed after
\* consuming input: the error index lies past the offset the child was
\* applied at.
C19_Witness ==
  /\ Applied("sequenceOf")
  /\ ChildFailed(1)
  /\ Parsers[Parsers[parser].parsers[1]].kind = "sequenceOf"
  /\ returned[1].state.status = ERROR
  /\ returned[1].state.index > entry.index

\* ------------------------------------------------------------------- C20
\* Every child of the sequence under application succeeded.
EveryChildSucceeds ==
  \A j \in 1..Len(Parsers[parser].parsers) : ~isErrorState(Children[j].state)

\* The sequence returned the last child's state (the entry state when it has
\* no child) with result replaced by the array of the children's results.
ReturnsLastChildWithResults ==
  LET n == Len(Parsers[parser].parsers)
  IN  returned[1].state =
        [Children[n].state EXCEPT
           !.result = Arr([j \in 1..n |-> Children[j].state.result])]

\* The parser under application is sequenceOf(literal(a), literal(b)) and it
\* is applied as parseString(a ++ b) applies it.
TwoLiteralsOnTheirTexts ==
  /\ Applied("sequenceOf")
  /\ Len(Parsers[parser].parsers) = 2
  /\ \A j \in 1..2 : Parsers[Parsers[parser].parsers[j]].kind = "literal"
  /\ entry = StartState(Parsers[Parsers[parser].parsers[1]].text
                          \o Parsers[Parsers[parser].parsers[2]].text, TRUE)

\* parseString(a ++ b) returned COMPLETE with result [a, b] and index |a| + |b|.
CompleteWithBoth ==
  LET a == Parsers[Parsers[parser].parsers[1]].text
      b == Parsers[Parsers[parser].parsers[2]].text
      out == returned[1].state
  IN  /\ out.status = COMPLETE
      /\ out.result = Arr(<<Str(a), Str(b)>>)
      /\ out.index = Len(a) + Len(b)

\* C20 (as claimed): when every child succeeds, the sequence returns the last
\* child's state with result replaced by the length-n array of the
\* children's results in order; in particular for all strings a and b,
\* sequenceOf(literal(a), literal(b)).parseString(a ++ b) is COMPLETE with
\* result [a, b] and index |a| + |b|.
C20_SequenceSuccessAllStrings ==
  /\ (Applied("sequenceOf") /\ EveryChildSucceeds) => ReturnsLastChildWithResults
  /\ TwoLiteralsOnTheirTexts => CompleteWithBoth

\* C20 (amended): the same, the particular case holding for all strings a
\* and all non-empty strings b.
C20_SequenceSuccess ==
  /\ (Applied("sequenceOf") /\ EveryChildSucceeds) => ReturnsLastChildWithResults
  /\ (TwoLiteralsOnTheirTexts
        /\ Parsers[Parsers[parser].parsers[2]].text # <<>>) => CompleteWithBoth
  /\ (TwoLiteralsOnTheirTexts
        /\ Parsers[Parsers[parser].parsers[2]].text = <<>>) =>
       ErrorAt(returned[1].state, ParserUnexpectedEndOfInputError,
               Len(entry.input.value))

\* sequenceOf(literal(""), literal("a")).parseString("a") returned COMPLETE
\* with result ["", "a"].
C20_Witness ==
  /\ TwoLiteralsOnTheirTexts
  /\ Parsers[Parsers[parser].parsers[1]].text = <<>>
  /\ Parsers[Parsers[parser].parsers[2]].text # <<>>
  /\ EveryChildSucceeds
  /\ returned[1].state.status = COMPLETE

\* ------------------------------------------------------------------- C21
\* The children of the oneOf under application, each run on the entry state,
\* the map going from one to the next: Alternatives[j] is what child j
\* returned and the map it left.
Alternatives ==
  LET parsers == Parsers[parser].parsers
      run[j \in 0..Len(parsers)] ==
        IF j = 0 THEN Out(entry, EmptyCacheMap)
        ELSE Transform(parsers[j], entry, run[j - 1].cacheMap)
  IN  run

\* Child j decides the choice: it succeeded, or it ran out of a non-final
\* input.
Decides(j) ==
  \/ ~isErrorState(Alternatives[j].state)
  \/ isUnexpectedEndOfInput(Alternatives[j].state)

\* The oneOf returned what child j returned, and its map holds what children
\* 1..j left plus the entry of the oneOf itself: no later child ran.
ReturnsAlternative(j, ran) ==
  /\ returned[1].state = Alternatives[j].state
  /\ returned[1].cacheMap =
       CacheSet(Alternatives[ran].cacheMap, <<parser, entry.index>>,
                Alternatives[j].state)

\* C21: oneOf(p1..pn) tries the children in order on the same entry state and
\* returns the state of the first child that succeeds (COMPLETE or PARTIAL)
\* or returns unexpected-end-of-input over a non-final snapshot, without
\* running any later child; if every child fails with another error it
\* returns the error state of the first child.
C21_OrderedChoice ==
  Applied("oneOf") =>
    LET n == Len(Parsers[parser].parsers)
    IN  /\ \A j \in 1..n :
             (Decides(j) /\ \A k \in 1..(j - 1) : ~Decides(k)) =>
               ReturnsAlternative(j, j)
        /\ (\A j \in 1..n : ~Decides(j)) => ReturnsAlternative(1, n)

\* The first alternative failed for good and the second one ran out of a
\* non-final input: its error state was returned.
C21_Witness ==
  /\ Applied("oneOf")
  /\ ~Decides(1)
  /\ isUnexpectedEndOfInput(Alternatives[2].state)
  /\ returned[1].state = Alternatives[2].state
  /\ Alternatives[1].state # Alternatives[2].state

\* ------------------------------------------------------------------- C22
\* The child of the repetition under application, run again and again, each
\* time on the state the run before returned: Repetitions[j] is what run j
\* returned and the map it left; Repetitions[0] stands for the entry.  A
\* success consumes a character, so the runs end within the buffer's length
\* plus one; an error state passes through the transforms after it.
Repetitions ==
  LET p == Parsers[parser].parsers[1]
      run[j \in 0..(Len(entry.input.value) + 1)] ==
        IF j = 0 THEN Out(entry, EmptyCacheMap)
        ELSE Transform(p, run[j - 1].state, run[j - 1].cacheMap)
  IN  run

\* Run m is the first run of the child that returned an error.
FirstMiss(m) ==
  /\ m \in 1..(Len(entry.input.value) + 1)
  /\ isErrorState(Repetitions[m].state)
  /\ ~isErrorState(Repetitions[m - 1].state)

\* The results of runs 1..m-1 in order.
Collected(m) == Arr([j \in 1..(m - 1) |-> Repetitions[j].state.result])

\* C22: zeroOrMore(p) applies p repeatedly, each time from the terminal index
\* of the previous success, collecting the results in order; when p returns
\* unexpected-end-of-input over a non-final snapshot it returns PARTIAL with
\* the results collected so far and the index of the last success (entry
\* index if none); when p returns any other error it returns the collected
\* results at the index of the last success, with status COMPLETE when
\* nothing was collected (result [] at the entry index, error null) and
\* otherwise the status of the last successful child state.
C22_ZeroOrMore ==
  Applied("zeroOrMore") =>
    \A m \in 1..(Len(entry.input.value) + 1) :
      FirstMiss(m) =>
        LET out == returned[1].state
            last == Repetitions[m - 1].state
        IN  /\ out.result = Collected(m)
            /\ out.index = last.index
            /\ out.error = NoError
            /\ out.status =
                 IF isUnexpectedEndOfInput(Repetitions[m].state) THEN PARTIAL
                 ELSE IF m = 1 THEN COMPLETE
                 ELSE last.status
            /\ m = 1 => out.index = entry.index

\* zeroOrMore collected two results and then ran out of a non-final input.
C22_Witness ==
  /\ Applied("zeroOrMore")
  /\ FirstMiss(3)
  /\ isUnexpectedEndOfInput(Repetitions[3].state)
  /\ returned[1].state.status = PARTIAL
  /\ Len(returned[1].state.result.a) = 2

\* ------------------------------------------------------------------- C23
\* The child failed for good before any match: its first run returned an
\* error that is not an unexpected end of input over a non-final snapshot.
NoMatchAtAll ==
  /\ isErrorState(Repetitions[1].state)
  /\ ~isUnexpectedEndOfInput(Repetitions[1].state)

\* What oneOrMore(p) and zeroOrMore(p) return for the child p of the
\* repetition under application, on the entry state.
AsOneOrMore == oneOrMore(Parsers[parser].parsers[1], entry, EmptyCacheMap).state
AsZeroOrMore == zeroOrMore(Parsers[parser].parsers[1], entry, EmptyCacheMap).state

\* C23: oneOrMore(p) is zeroOrMore(p) except in one case: for every entry
\* state both return the same status, index and result whenever at least one
\* match was collected or p asked for more input over a non-final snapshot;
\* when p fails with a genuine error before any match, oneOrMore returns
\* ERROR of kind empty-repetition at the entry index (not the child's error)
\* where zeroOrMore returns COMPLETE with [].
C23_OneOrMoreVsZeroOrMore ==
  (Applied("oneOrMore") \/ Applied("zeroOrMore")) =>
    /\ returned[1].state =
         IF Parsers[parser].kind = "oneOrMore" THEN AsOneOrMore ELSE AsZeroOrMore
    /\ IF NoMatchAtAll
       THEN /\ ErrorAt(AsOneOrMore, EmptyRepetitionError, entry.index)
            /\ AsZeroOrMore.status = COMPLETE
            /\ AsZeroOrMore.result = Arr(<<>>)
            /\ AsZeroOrMore.index = entry.index
       ELSE /\ AsOneOrMore.status = AsZeroOrMore.status
            /\ AsOneOrMore.index = AsZeroOrMore.index
            /\ AsOneOrMore.result = AsZeroOrMore.result
            /\ AsOneOrMore.error = AsZeroOrMore.error

\* oneOrMore applied where its child fails at once on a character that is
\* there: the empty-repetition error.
C23_Witness ==
  /\ Applied("oneOrMore")
  /\ NoMatchAtAll
  /\ entry.index < Len(entry.input.value)
  /\ Repetitions[1].state.error = MismatchError
  /\ returned[1].state.error = EmptyRepetitionError

\* ------------------------------------------------------------------- C24
\* What the only child of the parser under application returns on the entry
\* state.
Child == Transform(Parsers[parser].parsers[1], entry, EmptyCacheMap).state

\* C24: optional(p): if p returns unexpected-end-of-input over a non-final
\* snapshot that error state is returned as is; if p returns any other error
\* the result is COMPLETE with result null, error null and index equal to the
\* entry index; if p succeeds the child's state is returned unchanged.
C24_Optional ==
  Applied("optional") =>
    LET out == returned[1].state
    IN  IF isUnexpectedEndOfInput(Child) THEN out = Child
        ELSE IF isErrorState(Child)
        THEN /\ out.status = COMPLETE
             /\ out.result = Null
             /\ out.error = NoError
             /\ out.index = entry.index
        ELSE out = Child

\* optional applied where its child fails on a character that is there,
\* after a predecessor that left a result: COMPLETE with null.
C24_Witness ==
  /\ Applied("optional")
  /\ Child.error = MismatchError
  /\ entry.result # Null
  /\ entry.index > 0
  /\ returned[1].state.status = COMPLETE

\* ------------------------------------------------------------------- C25
\* C25: followedBy(p) never consumes input: whatever p returns, the state
\* returned by followedBy has the entry index; on child success (COMPLETE or
\* PARTIAL) it carries the child's status and result, and on child error it
\* is an ERROR carrying the child's error.
C25_FollowedBy ==
  Applied("followedBy") =>
    LET out == returned[1].state
    IN  /\ out.index = entry.index
        /\ out.input = entry.input
        /\ IF isErrorState(Child)
           THEN out.status = ERROR /\ out.error = Child.error
           ELSE /\ out.status = Child.status
                /\ out.result = Child.result
                /\ out.error = NoError

\* followedBy applied where its child matched and consumed: the match is
\* reported at the entry index.
C25_Witness ==
  /\ Applied("followedBy")
  /\ Child.status = COMPLETE
  /\ Child.index > entry.index
  /\ returned[1].state.status = COMPLETE
  /\ returned[1].state.index = entry.index

\* ------------------------------------------------------------------- C26
\* C26: notFollowedBy(p) returns, always at the entry index: ERROR
\* negative-lookahead-violation if p returned COMPLETE; ERROR
\* unexpected-end-of-input if p returned PARTIAL or unexpected-end-of-input
\* over a non-final snapshot; COMPLETE with result null if p returned any
\* other error.
C26_NotFollowedBy ==
  Applied("notFollowedBy") =>
    LET out == returned[1].state
    IN  /\ out.index = entry.index
        /\ IF Child.status = COMPLETE
           THEN ErrorAt(out, NegativeLookaheadError, entry.index)
           ELSE IF Child.status = PARTIAL \/ isUnexpectedEndOfInput(Child)
           THEN ErrorAt(out, ParserUnexpectedEndOfInputError, entry.index)
           ELSE out.status = COMPLETE /\ out.result = Null

\* notFollowedBy applied where its child matched a proper prefix of its text
\* at the end of a non-final buffer: it cannot decide yet.
C26_Witness ==
  /\ Applied("notFollowedBy")
  /\ Child.status = PARTIAL
  /\ Child.index > entry.index
  /\ returned[1].state.error = ParserUnexpectedEndOfInputError

\* ------------------------------------------------------------------- C27
\* A parse method of the parser has run transform at least once.
Invoked == nextParserState # <<>> \/ emitted # <<>> \/ whole # <<>>

\* C27: lazy(thunk) does not call thunk at construction, calls it on the
\* first invocation of the lazy parser, and never again: over any number of
\* parseString / parseIterable calls on the same lazy parser the thunk is
\* evaluated exactly once.
C27_ThunkCalledOnce ==
  Parsers[parser].kind = "lazy" =>
    thunkCalls = IF Invoked THEN 1 ELSE 0

\* ------------------------------------------------------------------- C28
RECURSIVE NestedResult(_, _)
\* The result of d levels of nesting around a digit: the digit itself for
\* d = 0, else ["[", the result of d - 1 levels, "]"].
NestedResult(d, digit) ==
  IF d = 0 THEN Str(<<digit>>)
  ELSE Arr(<<Str(<<"[">>), NestedResult(d - 1, digit), Str(<<"]">>)>>)

\* For every depth d >= 1 and digit in digits: if parseString was called on
\* the array grammar p with d opening brackets, the digit and d closing
\* brackets, it returned COMPLETE with index 2d + 1 and the nested result.
ParsesNesting(p, digits) ==
  (returned # <<>> /\ parser = p) =>
    \A d \in 1..MaxDepth, digit \in digits :
      entry.input.value = NestedInput(d, digit, d) =>
        /\ returned[1].state.status = COMPLETE
        /\ returned[1].state.index = 2 * d + 1
        /\ returned[1].state.result = NestedResult(d, digit)
        /\ returned[1].state.error = NoError

\* C28: with array = lazy(() => sequenceOf(literal("["), oneOf(array,
\* charFrom(["0", "9"])), literal("]"))), parseString of d opening brackets,
\* one digit and d closing brackets (d >= 1) terminates and is COMPLETE with
\* index 2d + 1 and the correspondingly nested result.
C28_NestedArrays == ParsesNesting(44, Digits)

\* The array grammar parses every nesting of the digits 0 and 9, and with its
\* digits written as the range ["0", "9"] every nesting of every digit.
NestedArraysOfListedDigits ==
  /\ ParsesNesting(44, {"0", "9"})
  /\ ParsesNesting(48, Digits)

\* ------------------------------------------------------------------- C29
\* C29: p.map(fn) returns a new parser, distinct from p (it has its own memo
\* entries), whose state equals p's state with result replaced by
\* fn(result) when p succeeds (index, status and error unchanged), and
\* equals p's error state unchanged when p fails (fn is not applied).
C29_Map ==
  Applied("map") =>
    LET p == Parsers[parser].parsers[1]
        out == returned[1].state
    IN  /\ parser # p
        /\ out = IF isErrorState(Child) THEN Child
                 ELSE [Child EXCEPT
                         !.result = ApplyFn(Parsers[parser].fn, Child.result)]
        /\ returned[1].cacheMap[<<parser, entry.index>>] = out
        /\ returned[1].cacheMap[<<p, entry.index>>] = Child

\* A mapped literal matched a proper prefix of its text: the PARTIAL state
\* carries the upper-cased prefix.
C29_Witness ==
  /\ Applied("map")
  /\ Parsers[parser].fn = "toUpperCase"
  /\ Child.status = PARTIAL
  /\ returned[1].state.status = PARTIAL
  /\ returned[1].state.result = Str(<<"A">>)

\* ------------------------------------------------------------------- C30
\* The memo key of the application: (parser, state.index).
EntryKey == <<parser, entry.index>>

\* The entry under the key may stand for the present call: it is COMPLETE,
\* or PARTIAL and computed on an input with the same value and done flag,
\* or an ERROR other than an unexpected end of input computed on a
\* non-final input.
MayReuse(cached) ==
  CASE cached.status = COMPLETE -> TRUE
    [] cached.status = PARTIAL ->
         cached.input.value = entry.input.value
           /\ cached.input.done = entry.input.done
    [] cached.status = ERROR ->
         cached.error # ParserUnexpectedEndOfInputError \/ cached.input.done

\* transform answered from the memo: the cached index, status, result and
\* error with the call's input, and the map left as it was.
AnsweredFromMemo ==
  /\ returned[1].state = [cacheMap[EntryKey] EXCEPT !.input = entry.input]
  /\ returned[1].cacheMap = cacheMap

\* transform ran the state transform function and stored what it returned.
RanTransformFn ==
  LET next == StateTransformFn(parser, entry, cacheMap)
  IN  /\ returned[1].state = next.state
      /\ returned[1].cacheMap = CacheSet(next.cacheMap, EntryKey, next.state)

\* C30: transform returns the memo entry stored under (parser, state.index)
\* instead of running the transform function if and only if the entry
\* exists and it is COMPLETE, or PARTIAL and computed on an input with the
\* same value and done flag as the current one, or an ERROR that is not an
\* unexpected-end-of-input error computed on a non-final input; on a hit the
\* returned state keeps the cached index, status, result and error and
\* carries the current call's input and cacheMap.
C30_CacheReuseRule ==
  returned # <<>> =>
    IF EntryKey \in DOMAIN cacheMap /\ MayReuse(cacheMap[EntryKey])
    THEN AnsweredFromMemo
    ELSE RanTransformFn

\* transform met a PARTIAL entry computed on a shorter buffer, ran the
\* transform function and returned something else than the entry.
C30_Recomputed ==
  /\ returned # <<>>
  /\ EntryKey \in DOMAIN cacheMap
  /\ cacheMap[EntryKey].status = PARTIAL
  /\ cacheMap[EntryKey].input.value # entry.input.value
  /\ returned[1].state.status = COMPLETE
  /\ returned[1].cacheMap[EntryKey] = returned[1].state

\* transform met a reusable ERROR entry computed on a shorter buffer and
\* answered with it, carrying the present input.
C30_Witness ==
  /\ returned # <<>>
  /\ EntryKey \in DOMAIN cacheMap
  /\ cacheMap[EntryKey].status = ERROR
  /\ cacheMap[EntryKey].input # entry.input
  /\ returned[1].state.input = entry.input
  /\ returned[1].cacheMap = cacheMap

\* ------------------------------------------------------------------- C31
\* transform answered from a COMPLETE entry that was computed on a prefix of
\* the present buffer.
AnsweredFromCompleteEntry ==
  /\ returned # <<>>
  /\ EntryKey \in DOMAIN cacheMap
  /\ cacheMap[EntryKey].status = COMPLETE
  /\ IsPrefix(cacheMap[EntryKey].input.value, entry.input.value)

\* The parser's transform function run on the present state with a new map.
Afresh == StateTransformFn(parser, entry, EmptyCacheMap).state

\* C31: whenever transform answers from a cached COMPLETE entry at (parser,
\* offset) on a snapshot that extends the one the entry was computed on, the
\* cached status, index and result equal what the parser's transform
\* function, run afresh with no memo at that offset on the current snapshot,
\* produces.
C31_MemoSoundness ==
  AnsweredFromCompleteEntry =>
    /\ returned[1].state.status = Afresh.status
    /\ returned[1].state.index = Afresh.index
    /\ returned[1].state.result = Afresh.result

\* ------------------------------------------------------------------- C32
\* The while loop of the repetition under parse is running.
InRepetition == pc \in {"while", "push"}

\* The child of the repetition has just succeeded at the index it was
\* applied at.
ZeroWidthSuccess ==
  /\ pc = "push"
  /\ returned[1].state.index = loopState.index

\* A success with no advance ends the repetition instead of being applied
\* again: the loop does not go round after it.
ZeroWidthSuccessEndsRepetition ==
  [][ZeroWidthSuccess => pc' # "while"]_vars

\* The while loop of a repetition, once entered, is left.
RepetitionLeft == InRepetition ~> ~InRepetition

\* A round of the while loop in which the child succeeded changes what the
\* next round starts from: the loop's state or the memo.  (A round that
\* returns the state it was given and writes nothing is followed by the same
\* round, whatever the array holds.)
RoundMakesProgress ==
  [][(pc = "while" /\ pc' = "push") =>
       (cacheMap' # cacheMap \/ returned'[1].state # loopState)]_vars

\* C32: zeroOrMore(p) and oneOrMore(p) terminate on every input and in both
\* modes even when p succeeds without advancing the index (an optional, a
\* lookahead, endOfInput on a final input, a sequenceOf that returned PARTIAL
\* at its own entry index): a success with no advance ends the repetition
\* instead of being applied again, and the while loop, once entered, is left.
C32_RepetitionTerminates == ZeroWidthSuccessEndsRepetition /\ RepetitionLeft

\* ------------------------------------------------------------------- C33
\* Runs a and b (a before b) are of the same parser at the same offset.
SamePair(a, b) ==
  /\ bodyRuns[a].parser = bodyRuns[b].parser
  /\ bodyRuns[a].index = bodyRuns[b].index

\* C33: during one parseIterable call, for every (parser, offset) pair the
\* parser's transform function runs at most once per distinct input
\* snapshot, and once it has produced a COMPLETE entry for that pair it never
\* runs again for that pair in the rest of the parse.
C33_PackratBound ==
  \A b \in 1..Len(bodyRuns) : \A a \in 1..(b - 1) :
    SamePair(a, b) =>
      /\ bodyRuns[a].state.input # bodyRuns[b].state.input
      /\ bodyRuns[a].state.status # COMPLETE

\* The second half alone: no run for a pair after a run that produced a
\* COMPLETE state for it.
NoRunAfterComplete ==
  \A b \in 1..Len(bodyRuns) : \A a \in 1..(b - 1) :
    SamePair(a, b) => bodyRuns[a].state.status # COMPLETE

\* A run is repeated on the same snapshot only after a run that returned an
\* unexpected end of that non-final input.
RepeatedOnlyAfterEndOfInput ==
  \A b \in 1..Len(bodyRuns) : \A a \in 1..(b - 1) :
    (SamePair(a, b) /\ bodyRuns[a].state.input = bodyRuns[b].state.input)
      => isUnexpectedEndOfInput(bodyRuns[a].state)

\* ------------------------------------------------------------------- C34
\* C34: transform applied to a state whose status is ERROR returns that very
\* state unchanged, does not run the parser's transform function, and leaves
\* the cacheMap unchanged (no entry is created or overwritten).
C34_ErrorShortCircuit ==
  (returned # <<>> /\ entry.status = ERROR) =>
    /\ returned[1].state = entry
    /\ returned[1].cacheMap = cacheMap
    /\ TransformRuns(parser, entry, cacheMap) = <<>>

\* transform was handed an error state at an index where the map holds a
\* COMPLETE entry of the parser, and returned the error state.
C34_Witness ==
  /\ returned # <<>>
  /\ entry.status = ERROR
  /\ EntryKey \in DOMAIN cacheMap
  /\ cacheMap[EntryKey].status = COMPLETE
  /\ returned[1].state = entry

\* ------------------------------------------------------------------- C35
\* A transform of a child made by the combinator under application returned
\* an unexpected end of the non-final input: the first child of a sequenceOf
\* that failed, the alternative of a oneOf reached after alternatives that
\* failed for good, a run of the child of a repetition, the one child of the
\* others.
ChildReturnedEndOfInput ==
  LET n == Parsers[parser]
  IN  CASE n.kind = "sequenceOf" ->
             \E j \in 1..Len(n.parsers) :
               /\ isUnexpectedEndOfInput(Children[j].state)
               /\ \A k \in 1..(j - 1) : ~isErrorState(Children[k].state)
        [] n.kind = "oneOf" ->
             \E j \in 1..Len(n.parsers) :
               /\ isUnexpectedEndOfInput(Alternatives[j].state)
               /\ \A k \in 1..(j - 1) :
                    /\ isErrorState(Alternatives[k].state)
                    /\ ~isUnexpectedEndOfInput(Alternatives[k].state)
        [] n.kind \in {"zeroOrMore", "oneOrMore"} ->
             \E j \in 1..(Len(entry.input.value) + 1) :
               isUnexpectedEndOfInput(Repetitions[j].state)
        [] n.kind \in {"optional", "followedBy", "notFollowedBy", "lazy"} ->
             isUnexpectedEndOfInput(Child)
        [] OTHER -> FALSE

\* C35: a child result that is unexpected-end-of-input over a non-final
\* snapshot is never turned into a verdict: sequenceOf, zeroOrMore and
\* oneOrMore turn it into PARTIAL, and oneOf, optional, followedBy,
\* notFollowedBy and lazy return an unexpected-end-of-input error; no
\* combinator returns COMPLETE or another ERROR as the outcome of such a
\* child result.
C35_EndOfInputIsNoVerdict ==
  (returned # <<>> /\ ChildReturnedEndOfInput) =>
    IF Parsers[parser].kind \in {"sequenceOf", "zeroOrMore", "oneOrMore"}
    THEN returned[1].state.status = PARTIAL
    ELSE /\ isUnexpectedEndOfInput(returned[1].state)
         /\ returned[1].state.input = entry.input

\* notFollowedBy was applied where its child ran out of a non-final input,
\* and returned the unexpected end of input instead of succeeding.
C35_Witness ==
  /\ Applied("notFollowedBy")
  /\ ChildReturnedEndOfInput
  /\ ~entry.input.done
  /\ returned[1].state.error = ParserUnexpectedEndOfInputError
  /\ returned[1].state.status = ERROR

\* ------------------------------------------------------------------- C36
\* An entry that transform reuses whatever the snapshot: COMPLETE, or an
\* ERROR other than an unexpected end of a non-final input.
ReusableOnAnySnapshot(cached) ==
  \/ cached.status = COMPLETE
  \/ cached.status = ERROR /\ ~isUnexpectedEndOfInput(cached)

\* From one transform call of parseIterable to the next every key keeps its
\* entry, and an entry reusable on any snapshot stays the state it was.
MonotoneStep ==
  \A key \in DOMAIN cacheMap :
    /\ key \in DOMAIN cacheMap'
    /\ ReusableOnAnySnapshot(cacheMap[key]) => cacheMap'[key] = cacheMap[key]

\* Inside the calls: every run of a transform function ends with its state
\* stored under (parser, offset); no run for a pair follows a run that
\* stored an entry reusable on any snapshot, and the map holds for every
\* pair what its last run stored.
MonotoneWrites ==
  /\ \A b \in 1..Len(bodyRuns) : \A a \in 1..(b - 1) :
       SamePair(a, b) => ~ReusableOnAnySnapshot(bodyRuns[a].state)
  /\ \A b \in 1..Len(bodyRuns) :
       /\ <<bodyRuns[b].parser, bodyRuns[b].index>> \in DOMAIN cacheMap
       /\ (\A c \in (b + 1)..Len(bodyRuns) : ~SamePair(b, c))
            => cacheMap[<<bodyRuns[b].parser, bodyRuns[b].index>>]
                 = bodyRuns[b].state

\* C36: the cacheMap of a parse is monotone: across every step of a parse
\* (all nested transforms and all chunk re-runs) a (parser, offset) key that
\* has an entry keeps having one, and an entry that is reusable regardless of
\* the snapshot (COMPLETE, or a stable ERROR) is never overwritten with a
\* different state.
C36_CacheMapMonotone == [][MonotoneStep]_vars /\ []MonotoneWrites

\* A later chunk re-ran the parse on a map holding a COMPLETE entry and a
\* PARTIAL one of an earlier snapshot: the first is what it was, the second
\* has been overwritten.
C36_Witness ==
  /\ pos >= 2
  /\ \E key \in DOMAIN cacheMap :
       /\ cacheMap[key].status = COMPLETE
       /\ cacheMap[key].input.value # currentInputValue
  /\ \E b \in 1..Len(bodyRuns) : \E a \in 1..(b - 1) :
       /\ SamePair(a, b)
       /\ bodyRuns[a].state.status = PARTIAL
       /\ bodyRuns[a].state # bodyRuns[b].state

\* ------------------------------------------------------------------- C37
\* C37: sequenceOf(p1..pn) returns status COMPLETE only if every child
\* p1..pn returned COMPLETE on the current snapshot: a child that returned
\* PARTIAL (for example followedBy over an incomplete literal) never leads to
\* a COMPLETE sequence over a non-final snapshot.
C37_CompleteOnlyFromCompleteChildren ==
  (Applied("sequenceOf") /\ returned[1].state.status = COMPLETE) =>
    \A j \in 1..Len(Parsers[parser].parsers) :
      Children[j].state.status = COMPLETE

\* ------------------------------------------------------------------- C38
\* The generator eventually returns, having emitted at least one state.
ParseIterableFinished == <>(pc = "done" /\ emitted # <<>>)

\* C38: for every parser without left recursion and every finite chunk
\* sequence, parseIterable eventually finishes and emits at least one state:
\* a terminal state inside the chunk loop or the final done = true state
\* after the source is exhausted.  A generator that finishes has no round of
\* a while loop that leaves unchanged all that the next round reads (such a
\* round is followed by itself for ever), and it reaches its return with a
\* state emitted.
C38_ParseIterableFinishes == RoundMakesProgress /\ ParseIterableFinished

\* ------------------------------------------------------------------- C39
\* C39: lookahead complement: for every parser p and every entry state,
\* followedBy(p) and notFollowedBy(p) never both succeed; and when
\* input.done = true exactly one of them returns COMPLETE and the other
\* returns ERROR, both at the entry index.
NeverBothSucceed ==
  returned # <<>> =>
    (isErrorState(returned[1].state) \/ isErrorState(returned[2].state))

AtEntryIndex ==
  returned # <<>> =>
    (returned[1].state.index = entry.index /\
     returned[2].state.index = entry.index)

ExactlyOneCompleteOnFinalInput ==
  (returned # <<>> /\ entry.input.done) =>
    \/ (returned[1].state.status = COMPLETE /\ returned[2].state.status = ERROR)
    \/ (returned[1].state.status = ERROR /\ returned[2].state.status = COMPLETE)

C39_LookaheadComplement ==
  NeverBothSucceed /\ AtEntryIndex /\ ExactlyOneCompleteOnFinalInput

====
